---- MODULE Spec2Model ----
(***************************************************************************)
(* Snowflake.AISQLAction: the translation of a function name and a JSON    *)
(* args text into Cortex AI SQL query text (src/src/snowflake-aisql.ts).   *)
(* Strings are TLA+ strings; a character is a string of length one.        *)
(***************************************************************************)
EXTENDS Integers, Sequences, FiniteSets, TLC

(***************************************************************************)
(* String primitives of the platform (String.prototype.trim, toUpperCase,  *)
(* toLowerCase, startsWith, Array.prototype.join).                         *)
(***************************************************************************)
CharAt(s, i) == SubSeq(s, i, i)

WhiteSpace == {" ", "\t", "\n", "\r"}

LowerAlphabet == "abcdefghijklmnopqrstuvwxyz"
UpperAlphabet == "ABCDEFGHIJKLMNOPQRSTUVWXYZ"

IndexIn(alphabet, c) ==
  IF \E i \in 1..Len(alphabet) : CharAt(alphabet, i) = c
    THEN CHOOSE i \in 1..Len(alphabet) : CharAt(alphabet, i) = c
    ELSE 0

UpperChar(c) ==
  IF IndexIn(LowerAlphabet, c) = 0 THEN c
  ELSE CharAt(UpperAlphabet, IndexIn(LowerAlphabet, c))

LowerChar(c) ==
  IF IndexIn(UpperAlphabet, c) = 0 THEN c
  ELSE CharAt(LowerAlphabet, IndexIn(UpperAlphabet, c))

\* Character-wise rewriting splits the string in halves, so that the depth
\* of the evaluation grows with the logarithm of the length.
FirstHalf(s) == SubSeq(s, 1, Len(s) \div 2)
SecondHalf(s) == SubSeq(s, Len(s) \div 2 + 1, Len(s))

RECURSIVE ToUpperCase(_)
ToUpperCase(s) ==
  IF Len(s) = 0 THEN ""
  ELSE IF Len(s) = 1 THEN UpperChar(s)
  ELSE ToUpperCase(FirstHalf(s)) \o ToUpperCase(SecondHalf(s))

RECURSIVE ToLowerCase(_)
ToLowerCase(s) ==
  IF Len(s) = 0 THEN ""
  ELSE IF Len(s) = 1 THEN LowerChar(s)
  ELSE ToLowerCase(FirstHalf(s)) \o ToLowerCase(SecondHalf(s))

RECURSIVE TrimStart(_)
TrimStart(s) ==
  IF s = "" THEN ""
  ELSE IF Head(s) \in WhiteSpace THEN TrimStart(Tail(s)) ELSE s

RECURSIVE TrimEnd(_)
TrimEnd(s) ==
  IF s = "" THEN ""
  ELSE IF CharAt(s, Len(s)) \in WhiteSpace
    THEN TrimEnd(SubSeq(s, 1, Len(s) - 1)) ELSE s

Trim(s) == TrimEnd(TrimStart(s))

StartsWith(s, prefix) ==
  Len(s) >= Len(prefix) /\ SubSeq(s, 1, Len(prefix)) = prefix

RECURSIVE Join(_, _)
Join(parts, sep) ==
  IF Len(parts) = 0 THEN ""
  ELSE IF Len(parts) = 1 THEN parts[1]
  ELSE parts[1] \o sep \o Join(Tail(parts), sep)

(***************************************************************************)
(* The supported function names.                                           *)
(***************************************************************************)
SUPPORTED_FUNCTIONS ==
  << "AI_COMPLETE", "SNOWFLAKE.CORTEX.COMPLETE",
     "AI_EXTRACT", "SNOWFLAKE.CORTEX.EXTRACT",
     "AI_SENTIMENT", "SNOWFLAKE.CORTEX.SENTIMENT",
     "AI_CLASSIFY", "SNOWFLAKE.CORTEX.CLASSIFY",
     "AI_COUNT_TOKENS", "SNOWFLAKE.CORTEX.COUNT_TOKENS",
     "AI_EMBED", "SNOWFLAKE.CORTEX.EMBED",
     "AI_SIMILARITY", "SNOWFLAKE.CORTEX.SIMILARITY",
     "AI_PARSE_DOCUMENT", "SNOWFLAKE.CORTEX.PARSE_DOCUMENT" >>

SUPPORTED_FUNCTION_SET == { SUPPORTED_FUNCTIONS[i] : i \in 1..Len(SUPPORTED_FUNCTIONS) }

(***************************************************************************)
(* Errors: a thrown Error is its message together with the kind of the     *)
(* error taxonomy it falls under.                                          *)
(***************************************************************************)
Throw(kind, msg) == [ok |-> FALSE, kind |-> kind, msg |-> msg, value |-> ""]
Return(v) == [ok |-> TRUE, kind |-> "", msg |-> "", value |-> v]

\* normalizeFunctionName: trim, reject blank, upper-case, then the chain of
\* exact comparisons; a name that matches none is returned upper-cased.
\* (Messages are written without the source's backquote characters.)
\* A normalizeFunctionName that trims the name but keeps its letter case.
normalizeFunctionName_NoFold(raw) ==
  IF Trim(raw) = ""
    THEN Throw("MissingFunctionName",
               "Missing function name - provide function input or set AI_FUNCTION.")
    ELSE Return(Trim(raw))

\* A normalizeFunctionName that returns the AI_ name for a dotted alias.
normalizeFunctionName_Canonical(raw) ==
  LET upper == ToUpperCase(Trim(raw))
  IN IF upper = ""
       THEN Throw("MissingFunctionName",
                  "Missing function name - provide function input or set AI_FUNCTION.")
     ELSE IF StartsWith(upper, "SNOWFLAKE.CORTEX.")
       THEN Return("AI_" \o SubSeq(upper, Len("SNOWFLAKE.CORTEX.") + 1, Len(upper)))
     ELSE Return(upper)

normalizeFunctionName(raw) ==
  LET trimmed == Trim(raw)
      upper == ToUpperCase(trimmed)
  IN IF trimmed = ""
       THEN Throw("MissingFunctionName",
                  "Missing function name - provide function input or set AI_FUNCTION.")
       ELSE IF upper = "AI_COMPLETE" THEN Return("AI_COMPLETE")
       ELSE IF upper = "SNOWFLAKE.CORTEX.COMPLETE" THEN Return("SNOWFLAKE.CORTEX.COMPLETE")
       ELSE IF upper = "AI_EXTRACT" THEN Return("AI_EXTRACT")
       ELSE IF upper = "SNOWFLAKE.CORTEX.EXTRACT" THEN Return("SNOWFLAKE.CORTEX.EXTRACT")
       ELSE IF upper = "AI_SENTIMENT" THEN Return("AI_SENTIMENT")
       ELSE IF upper = "SNOWFLAKE.CORTEX.SENTIMENT" THEN Return("SNOWFLAKE.CORTEX.SENTIMENT")
       ELSE IF upper = "AI_CLASSIFY" THEN Return("AI_CLASSIFY")
       ELSE IF upper = "SNOWFLAKE.CORTEX.CLASSIFY" THEN Return("SNOWFLAKE.CORTEX.CLASSIFY")
       ELSE IF upper = "AI_COUNT_TOKENS" THEN Return("AI_COUNT_TOKENS")
       ELSE IF upper = "SNOWFLAKE.CORTEX.COUNT_TOKENS" THEN Return("SNOWFLAKE.CORTEX.COUNT_TOKENS")
       ELSE IF upper = "AI_EMBED" THEN Return("AI_EMBED")
       ELSE IF upper = "SNOWFLAKE.CORTEX.EMBED" THEN Return("SNOWFLAKE.CORTEX.EMBED")
       ELSE IF upper = "AI_SIMILARITY" THEN Return("AI_SIMILARITY")
       ELSE IF upper = "SNOWFLAKE.CORTEX.SIMILARITY" THEN Return("SNOWFLAKE.CORTEX.SIMILARITY")
       ELSE IF upper = "AI_PARSE_DOCUMENT" THEN Return("AI_PARSE_DOCUMENT")
       ELSE IF upper = "SNOWFLAKE.CORTEX.PARSE_DOCUMENT" THEN Return("SNOWFLAKE.CORTEX.PARSE_DOCUMENT")
       ELSE Return(upper)

\* An assertSupportedFunction that accepts a name a supported name is a prefix of.
assertSupportedFunction_Prefix(functionName) ==
  IF \A name \in SUPPORTED_FUNCTION_SET : ~StartsWith(functionName, name)
    THEN Throw("UnsupportedFunction", "Unsupported function '" \o functionName \o "'.")
    ELSE Return("")

\* assertSupportedFunction: membership in SUPPORTED_FUNCTION_SET.
assertSupportedFunction(functionName) ==
  IF functionName \notin SUPPORTED_FUNCTION_SET
    THEN Throw("UnsupportedFunction",
               "Unsupported function '" \o functionName \o "'. Supported: "
                 \o Join(SUPPORTED_FUNCTIONS, ", ") \o ".")
    ELSE Return("")

\* A replace with a string pattern: only the first quote is doubled.
RECURSIVE ReplaceQuotes_FirstOnly(_)
ReplaceQuotes_FirstOnly(value) ==
  IF Len(value) = 0 THEN ""
  ELSE IF Head(value) = "'" THEN "''" \o Tail(value)
  ELSE Head(value) \o ReplaceQuotes_FirstOnly(Tail(value))

\* toSqlString: value.replace(/'/g, "''") wrapped in single quotes.
RECURSIVE ReplaceQuotes(_)
ReplaceQuotes(value) ==
  IF Len(value) = 0 THEN ""
  ELSE IF Len(value) = 1 THEN (IF value = "'" THEN "''" ELSE value)
  ELSE ReplaceQuotes(FirstHalf(value)) \o ReplaceQuotes(SecondHalf(value))

\* A toSqlString that wraps the value without doubling its quotes.
toSqlString_NoDoubling(value) == "'" \o value \o "'"

toSqlString(value) == "'" \o ReplaceQuotes(value) \o "'"

(***************************************************************************)
(* JSON values as the platform holds them after JSON.parse: a tag t and,   *)
(* by tag, the string s, the number n, the boolean b, the array items or   *)
(* the object members.  An object is the sequence of its <<key, value>>    *)
(* members in insertion order; a missing property reads as Undefined.      *)
(***************************************************************************)
Blank ==
  [t |-> "undefined", s |-> "", n |-> 0, b |-> FALSE, items |-> << >>, members |-> << >>]
Undefined == Blank
JNull == [Blank EXCEPT !.t = "null"]
JStr(s) == [Blank EXCEPT !.t = "string", !.s = s]
JBool(b) == [Blank EXCEPT !.t = "boolean", !.b = b]
JNum(n) == [Blank EXCEPT !.t = "number", !.n = n]
JArr(items) == [Blank EXCEPT !.t = "array", !.items = items]
JObj(members) == [Blank EXCEPT !.t = "object", !.members = members]

EmptyObject == JObj(<< >>)

IsString(x) == x.t = "string"
IsArray(x) == x.t = "array"

\* isPlainObject: typeof value === 'object' && value !== null && !Array.isArray(value)
isPlainObject(value) == value.t = "object"

\* a !== undefined
Defined(x) == x.t # "undefined"

\* the operand test of ?? : null and undefined fall through to the right side
Nullish(x) == x.t \in {"undefined", "null"}
Coalesce(a, b) == IF Nullish(a) THEN b ELSE a

\* ToBoolean, as used by cond ? a : b, && and if (...)
Truthy(x) ==
  CASE x.t = "undefined" -> FALSE
    [] x.t = "null" -> FALSE
    [] x.t = "string" -> x.s # ""
    [] x.t = "boolean" -> x.b
    [] x.t = "number" -> x.n # 0
    [] OTHER -> TRUE

Keys(obj) == [i \in 1..Len(obj.members) |-> obj.members[i][1]]
KeySet(obj) == { obj.members[i][1] : i \in 1..Len(obj.members) }
Has(obj, key) == key \in KeySet(obj)
Get(obj, key) ==
  IF Has(obj, key)
    THEN obj.members[CHOOSE i \in 1..Len(obj.members) : obj.members[i][1] = key][2]
    ELSE Undefined

IsDeclared(member, declared) == member[1] \in declared

\* const { a, b, ...rest } = parsed : the members whose key is not named
RECURSIVE RestMembers(_, _)
RestMembers(members, declared) ==
  IF Len(members) = 0 THEN << >>
  ELSE IF Head(members)[1] \in declared
    THEN RestMembers(Tail(members), declared)
    ELSE << Head(members) >> \o RestMembers(Tail(members), declared)

\* A rest pattern that collects nothing.
Rest_Nothing(obj, declared) == EmptyObject

Rest(obj, declared) == JObj(RestMembers(obj.members, declared))

\* target[key] = value : an existing key keeps its position, a new one is appended
SetMember(members, key, value) ==
  IF \E i \in 1..Len(members) : members[i][1] = key
    THEN [i \in 1..Len(members) |->
            IF members[i][1] = key THEN << key, value >> ELSE members[i]]
    ELSE Append(members, << key, value >>)

RECURSIVE AssignMembers(_, _)
AssignMembers(target, source) ==
  IF Len(source) = 0 THEN target
  ELSE AssignMembers(SetMember(target, Head(source)[1], Head(source)[2]), Tail(source))

\* Object.assign({}, ...sources)
RECURSIVE ObjectAssign(_, _)
ObjectAssign(target, sources) ==
  IF Len(sources) = 0 THEN target
  ELSE ObjectAssign(JObj(AssignMembers(target.members, Head(sources).members)), Tail(sources))

\* { ...(cond ? { key: value } : {}) } : the member list of an object literal
\* whose members are each present or spread away
Member(key, value) == << << key, value >> >>
MemberIf(cond, key, value) == IF cond THEN Member(key, value) ELSE << >>

(***************************************************************************)
(* JSON.stringify (compact form).                                          *)
(***************************************************************************)
QuoteJsonChar(c) ==
  CASE c = "\"" -> "\\\""
    [] c = "\\" -> "\\\\"
    [] c = "\n" -> "\\n"
    [] c = "\t" -> "\\t"
    [] c = "\r" -> "\\r"
    [] OTHER -> c

RECURSIVE QuoteJsonChars(_)
QuoteJsonChars(s) ==
  IF Len(s) = 0 THEN ""
  ELSE IF Len(s) = 1 THEN QuoteJsonChar(s)
  ELSE QuoteJsonChars(FirstHalf(s)) \o QuoteJsonChars(SecondHalf(s))

RECURSIVE JsonStringify(_), StringifyItems(_), StringifyMembers(_)
JsonStringify(x) ==
  CASE x.t = "string" -> "\"" \o QuoteJsonChars(x.s) \o "\""
    [] x.t = "number" -> ToString(x.n)
    [] x.t = "boolean" -> (IF x.b THEN "true" ELSE "false")
    [] x.t = "null" -> "null"
    [] x.t = "array" -> "[" \o Join(StringifyItems(x.items), ",") \o "]"
    [] x.t = "object" -> "{" \o Join(StringifyMembers(x.members), ",") \o "}"
    [] OTHER -> "undefined"

StringifyItems(items) ==
  IF Len(items) = 0 THEN << >>
  ELSE << (IF Defined(Head(items)) THEN JsonStringify(Head(items)) ELSE "null") >>
         \o StringifyItems(Tail(items))

StringifyMembers(members) ==
  IF Len(members) = 0 THEN << >>
  ELSE (IF Defined(Head(members)[2])
          THEN << "\"" \o QuoteJsonChars(Head(members)[1]) \o "\":"
                    \o JsonStringify(Head(members)[2]) >>
          ELSE << >>)
         \o StringifyMembers(Tail(members))

\* JSON.stringify(value, null, 2)
RECURSIVE Spaces(_)
Spaces(n) == IF n = 0 THEN "" ELSE " " \o Spaces(n - 1)

RECURSIVE JsonPretty(_, _), PrettyItems(_, _), PrettyMembers(_, _)
JsonPretty(x, indent) ==
  CASE x.t = "array" ->
         (IF Len(x.items) = 0 THEN "[]"
          ELSE "[\n" \o Join(PrettyItems(x.items, indent + 2), ",\n")
                 \o "\n" \o Spaces(indent) \o "]")
    [] x.t = "object" ->
         (IF Len(PrettyMembers(x.members, indent + 2)) = 0 THEN "{}"
          ELSE "{\n" \o Join(PrettyMembers(x.members, indent + 2), ",\n")
                 \o "\n" \o Spaces(indent) \o "}")
    [] OTHER -> JsonStringify(x)

PrettyItems(items, indent) ==
  IF Len(items) = 0 THEN << >>
  ELSE << Spaces(indent)
            \o (IF Defined(Head(items)) THEN JsonPretty(Head(items), indent) ELSE "null") >>
         \o PrettyItems(Tail(items), indent)

PrettyMembers(members, indent) ==
  IF Len(members) = 0 THEN << >>
  ELSE (IF Defined(Head(members)[2])
          THEN << Spaces(indent) \o "\"" \o QuoteJsonChars(Head(members)[1]) \o "\": "
                    \o JsonPretty(Head(members)[2], indent) >>
          ELSE << >>)
         \o PrettyMembers(Tail(members), indent)

(***************************************************************************)
(* Shared helpers of the normalizers.                                      *)
(***************************************************************************)
\* The kind of a failed typeof value === 'string' test.
NotAString(value) == IF Defined(value) THEN "TypeMismatch" ELSE "MissingField"

\* A requireTrimmedString that checks the trimmed value and returns the value as given.
requireTrimmedString_NoTrim(value, field) ==
  IF ~IsString(value)
    THEN Throw(NotAString(value), "Missing " \o field \o " - expected a string.")
  ELSE IF Trim(value.s) = ""
    THEN Throw("BlankField", "Missing " \o field \o " - cannot be blank.")
  ELSE Return(value.s)

requireTrimmedString(value, field) ==
  IF ~IsString(value)
    THEN Throw(NotAString(value), "Missing " \o field \o " - expected a string.")
  ELSE IF Trim(value.s) = ""
    THEN Throw("BlankField", "Missing " \o field \o " - cannot be blank.")
  ELSE Return(Trim(value.s))

requireNonEmptyString(value, field) ==
  IF ~IsString(value)
    THEN Throw(NotAString(value), "Missing " \o field \o " - expected a string.")
  ELSE IF Trim(value.s) = ""
    THEN Throw("BlankField", "Missing " \o field \o " - cannot be blank.")
  ELSE Return(value.s)

\* JSON.parse of the platform.  A raw args text is a string value carried
\* with what it parses to: raw.s is the text and raw.doc the parsed value,
\* or Undefined for a text that is not well-formed JSON.
RawText(text, doc) ==
  [t |-> "string", s |-> text, n |-> 0, b |-> FALSE, items |-> << >>, members |-> << >>,
   doc |-> doc]

JsonParse(raw) ==
  IF Defined(raw.doc) THEN Return(raw.doc)
  ELSE Throw("SyntaxError", "Unexpected token in JSON")

\* A parseJsonObject that returns whatever the text parses to.
parseJsonObject_AnyShape(raw, label) ==
  LET trimmed == Trim(raw.s)
      parsed == JsonParse(raw)
  IN IF trimmed = "" THEN Throw("MissingInput", label \o " cannot be empty.")
     ELSE IF ~parsed.ok
       THEN Throw("InvalidJson", "Invalid " \o label \o " JSON: " \o parsed.msg)
     ELSE Return(parsed.value)

parseJsonObject(raw, label) ==
  LET trimmed == Trim(raw.s)
      parsed == JsonParse(raw)
  IN IF trimmed = "" THEN Throw("MissingInput", label \o " cannot be empty.")
     ELSE IF ~parsed.ok
       THEN Throw("InvalidJson", "Invalid " \o label \o " JSON: " \o parsed.msg)
     ELSE IF ~isPlainObject(parsed.value)
       THEN Throw("WrongShape", label \o " must be a JSON object.")
     ELSE Return(parsed.value)

\* "Does not accept additional arguments": the leftover-key rejection
RejectRest(name, rest) ==
  Throw("UnknownKey",
        name \o " does not accept additional arguments: " \o Join(Keys(rest), ", "))

(***************************************************************************)
(* The per-function normalizers.  Each returns Return(payload) or the      *)
(* first error thrown, in the order the source evaluates its checks.       *)
(***************************************************************************)
\* A mergeModelParameters that merges the leftover keys first.
mergeModelParameters_RestFirst(modelParameters, modelParametersAlt, options, rest) ==
  LET sources ==
        (IF Len(Keys(rest)) > 0 THEN << rest >> ELSE << >>)
          \o (IF Defined(modelParameters) THEN << modelParameters >> ELSE << >>)
          \o (IF Defined(modelParametersAlt) THEN << modelParametersAlt >> ELSE << >>)
          \o (IF Defined(options) THEN << options >> ELSE << >>)
      merged == ObjectAssign(EmptyObject, sources)
  IN IF Defined(modelParameters) /\ ~isPlainObject(modelParameters)
       THEN Throw("TypeMismatch", "AI_COMPLETE model_parameters must be a JSON object.")
     ELSE IF Defined(modelParametersAlt) /\ ~isPlainObject(modelParametersAlt)
       THEN Throw("TypeMismatch", "AI_COMPLETE modelParameters must be a JSON object.")
     ELSE IF Defined(options) /\ ~isPlainObject(options)
       THEN Throw("TypeMismatch", "AI_COMPLETE options must be a JSON object.")
     ELSE IF Len(sources) = 0 THEN Return(Undefined)
     ELSE IF Len(Keys(merged)) > 0 THEN Return(merged) ELSE Return(Undefined)

mergeModelParameters(modelParameters, modelParametersAlt, options, rest) ==
  LET sources ==
        (IF Defined(modelParameters) THEN << modelParameters >> ELSE << >>)
          \o (IF Defined(modelParametersAlt) THEN << modelParametersAlt >> ELSE << >>)
          \o (IF Defined(options) THEN << options >> ELSE << >>)
          \o (IF Len(Keys(rest)) > 0 THEN << rest >> ELSE << >>)
      merged == ObjectAssign(EmptyObject, sources)
  IN IF Defined(modelParameters) /\ ~isPlainObject(modelParameters)
       THEN Throw("TypeMismatch", "AI_COMPLETE model_parameters must be a JSON object.")
     ELSE IF Defined(modelParametersAlt) /\ ~isPlainObject(modelParametersAlt)
       THEN Throw("TypeMismatch", "AI_COMPLETE modelParameters must be a JSON object.")
     ELSE IF Defined(options) /\ ~isPlainObject(options)
       THEN Throw("TypeMismatch", "AI_COMPLETE options must be a JSON object.")
     ELSE IF Len(sources) = 0 THEN Return(Undefined)
     ELSE IF Len(Keys(merged)) > 0 THEN Return(merged) ELSE Return(Undefined)

resolveResponseFormat(responseFormat, responseFormatAlt) ==
  LET primary == IF Defined(responseFormat) THEN responseFormat ELSE responseFormatAlt
      secondary == Defined(responseFormat) /\ Defined(responseFormatAlt)
  IN IF secondary
       THEN Throw("AliasConflict", "Provide only one of response_format or responseFormat.")
     ELSE IF ~Defined(primary) THEN Return(Undefined)
     ELSE IF ~isPlainObject(primary)
       THEN Throw("TypeMismatch", "AI_COMPLETE response_format must be a JSON object.")
     ELSE Return(primary)

resolveShowDetails(showDetails, showDetailsAlt) ==
  LET primary == IF Defined(showDetails) THEN showDetails ELSE showDetailsAlt
      secondary == Defined(showDetails) /\ Defined(showDetailsAlt)
  IN IF secondary
       THEN Throw("AliasConflict", "Provide only one of show_details or showDetails.")
     ELSE IF ~Defined(primary) THEN Return(Undefined)
     ELSE IF primary.t # "boolean"
       THEN Throw("TypeMismatch", "AI_COMPLETE show_details must be a boolean.")
     ELSE Return(primary)

CompleteDeclared ==
  {"model", "prompt", "model_parameters", "modelParameters", "response_format",
   "responseFormat", "show_details", "showDetails", "options"}

parseAiCompleteArgs(raw) ==
  LET p == parseJsonObject(raw, "args")
      parsed == p.value
      rest == Rest(parsed, CompleteDeclared)
      resolvedModel == requireTrimmedString(Get(parsed, "model"), "model")
      resolvedPrompt == requireNonEmptyString(Get(parsed, "prompt"), "prompt")
      resolvedModelParameters ==
        mergeModelParameters(Get(parsed, "model_parameters"), Get(parsed, "modelParameters"),
                             Get(parsed, "options"), rest)
      resolvedResponseFormat ==
        resolveResponseFormat(Get(parsed, "response_format"), Get(parsed, "responseFormat"))
      resolvedShowDetails ==
        resolveShowDetails(Get(parsed, "show_details"), Get(parsed, "showDetails"))
  IN IF ~p.ok THEN p
     ELSE IF ~resolvedModel.ok THEN resolvedModel
     ELSE IF ~resolvedPrompt.ok THEN resolvedPrompt
     ELSE IF ~resolvedModelParameters.ok THEN resolvedModelParameters
     ELSE IF ~resolvedResponseFormat.ok THEN resolvedResponseFormat
     ELSE IF ~resolvedShowDetails.ok THEN resolvedShowDetails
     ELSE Return(JObj(Member("model", JStr(resolvedModel.value))
                        \o Member("prompt", JStr(resolvedPrompt.value))
                        \o Member("modelParameters", resolvedModelParameters.value)
                        \o Member("responseFormat", resolvedResponseFormat.value)
                        \o Member("showDetails", resolvedShowDetails.value)))

resolveExtractResponseFormat(responseFormat, responseFormatAlt) ==
  LET primary == IF Defined(responseFormat) THEN responseFormat ELSE responseFormatAlt
      secondary == Defined(responseFormat) /\ Defined(responseFormatAlt)
  IN IF secondary
       THEN Throw("AliasConflict", "Provide only one of response_format or responseFormat.")
     ELSE IF ~Defined(primary)
       THEN Throw("MissingField", "Missing response_format - expected an object or array.")
     ELSE IF ~isPlainObject(primary) /\ ~IsArray(primary)
       THEN Throw("TypeMismatch", "AI_EXTRACT response_format must be a JSON object or array.")
     ELSE Return(primary)

\* A parseAiExtractArgs that takes text when both text and file are given.
parseAiExtractArgs_TextWins(raw) ==
  LET p == parseJsonObject(raw, "args")
      parsed == p.value
      text == Get(parsed, "text")
      file == Get(parsed, "file")
      rest == Rest(parsed, {"text", "file", "response_format", "responseFormat"})
      hasText == ~Nullish(text)
      hasFile == ~Nullish(file)
      resolvedText == IF hasText THEN requireNonEmptyString(text, "text") ELSE Return("")
      resolvedFile ==
        IF ~hasText /\ hasFile THEN requireNonEmptyString(file, "file") ELSE Return("")
      resolvedResponseFormat ==
        resolveExtractResponseFormat(Get(parsed, "response_format"), Get(parsed, "responseFormat"))
  IN IF ~p.ok THEN p
     ELSE IF Len(Keys(rest)) > 0 THEN RejectRest("AI_EXTRACT", rest)
     ELSE IF ~hasText /\ ~hasFile
       THEN Throw("MutuallyExclusiveViolation",
                  "AI_EXTRACT requires either text or file (but not both).")
     ELSE IF ~resolvedText.ok THEN resolvedText
     ELSE IF ~resolvedFile.ok THEN resolvedFile
     ELSE IF ~resolvedResponseFormat.ok THEN resolvedResponseFormat
     ELSE Return(JObj(Member("text", IF hasText THEN JStr(resolvedText.value) ELSE Undefined)
                        \o Member("file", IF hasText THEN Undefined ELSE JStr(resolvedFile.value))
                        \o Member("responseFormat", resolvedResponseFormat.value)))

parseAiExtractArgs(raw) ==
  LET p == parseJsonObject(raw, "args")
      parsed == p.value
      text == Get(parsed, "text")
      file == Get(parsed, "file")
      rest == Rest(parsed, {"text", "file", "response_format", "responseFormat"})
      hasText == ~Nullish(text)
      hasFile == ~Nullish(file)
      resolvedText == IF hasText THEN requireNonEmptyString(text, "text") ELSE Return("")
      resolvedFile ==
        IF ~hasText /\ hasFile THEN requireNonEmptyString(file, "file") ELSE Return("")
      resolvedResponseFormat ==
        resolveExtractResponseFormat(Get(parsed, "response_format"), Get(parsed, "responseFormat"))
  IN IF ~p.ok THEN p
     ELSE IF Len(Keys(rest)) > 0 THEN RejectRest("AI_EXTRACT", rest)
     ELSE IF hasText = hasFile
       THEN Throw("MutuallyExclusiveViolation",
                  "AI_EXTRACT requires either text or file (but not both).")
     ELSE IF ~resolvedText.ok THEN resolvedText
     ELSE IF ~resolvedFile.ok THEN resolvedFile
     ELSE IF ~resolvedResponseFormat.ok THEN resolvedResponseFormat
     ELSE Return(JObj(Member("text", IF hasText THEN JStr(resolvedText.value) ELSE Undefined)
                        \o Member("file", IF hasText THEN Undefined ELSE JStr(resolvedFile.value))
                        \o Member("responseFormat", resolvedResponseFormat.value)))

resolveClassifyInput(value) ==
  IF Nullish(value)
    THEN Throw("MissingField", "Missing input - expected a string or JSON object.")
  ELSE IF IsString(value)
    THEN (IF Trim(value.s) = ""
            THEN Throw("BlankField", "Missing input - cannot be blank.")
            ELSE Return(value))
  ELSE IF isPlainObject(value) THEN Return(value)
  ELSE Throw("TypeMismatch", "AI_CLASSIFY input must be a string or JSON object.")

\* The forEach of normalizeClassifyCategories from entry index + 1 on, with
\* the normalized list and the seen set built so far.
RECURSIVE ClassifyEntries(_, _, _, _, _)
ClassifyEntries(value, index, normalized, seen, label) ==
  IF index >= Len(value) THEN Return(normalized)
  ELSE
    LET entry == value[index + 1]
        at == "AI_CLASSIFY " \o label \o "[" \o ToString(index) \o "]"
    IN IF IsString(entry)
         THEN LET trimmed == Trim(entry.s)
              IN IF trimmed = "" THEN Throw("BlankField", at \o " cannot be blank.")
                 ELSE IF trimmed \in seen
                   THEN ClassifyEntries(value, index + 1, normalized, seen, label)
                 ELSE ClassifyEntries(value, index + 1, Append(normalized, JStr(trimmed)),
                                      seen \cup {trimmed}, label)
       ELSE IF isPlainObject(entry)
         THEN LET rawLabel == Get(entry, "label")
                  description == Get(entry, "description")
              IN IF ~IsString(rawLabel)
                   THEN Throw(NotAString(rawLabel), at \o ".label must be a non-empty string.")
                 ELSE IF Trim(rawLabel.s) = ""
                   THEN Throw("BlankField", at \o ".label must be a non-empty string.")
                 ELSE IF Trim(rawLabel.s) \in seen
                   THEN ClassifyEntries(value, index + 1, normalized, seen, label)
                 ELSE IF Defined(description) /\ ~IsString(description)
                   THEN Throw("TypeMismatch", at \o ".description must be a string.")
                 ELSE ClassifyEntries(
                        value, index + 1,
                        Append(normalized,
                               JObj(Member("label", JStr(Trim(rawLabel.s)))
                                      \o MemberIf(Truthy(description) /\ Trim(description.s) # "",
                                                  "description", JStr(Trim(description.s))))),
                        seen \cup {Trim(rawLabel.s)}, label)
       ELSE Throw("TypeMismatch", at \o " must be a string or object.")

\* A normalizeClassifyCategories that trims the entries and keeps the duplicates.
normalizeClassifyCategories_NoDedupe(value, label) ==
  LET One(entry) == ClassifyEntries(<< entry >>, 0, << >>, {}, label)
  IN IF ~IsArray(value)
       THEN Throw(NotAString(value), "AI_CLASSIFY " \o label \o " must be a JSON array.")
     ELSE IF Len(value.items) = 0
       THEN Throw("BoundsViolation", "AI_CLASSIFY " \o label \o " cannot be empty.")
     ELSE IF \E i \in 1..Len(value.items) : ~One(value.items[i]).ok
       THEN One(value.items[CHOOSE i \in 1..Len(value.items) : ~One(value.items[i]).ok])
     ELSE Return([i \in 1..Len(value.items) |-> One(value.items[i]).value[1]])

normalizeClassifyCategories(value, label) ==
  IF ~IsArray(value)
    THEN Throw(NotAString(value), "AI_CLASSIFY " \o label \o " must be a JSON array.")
  ELSE IF Len(value.items) = 0
    THEN Throw("BoundsViolation", "AI_CLASSIFY " \o label \o " cannot be empty.")
  ELSE ClassifyEntries(value.items, 0, << >>, {}, label)

\* A categories.map(...) without the 30-character limit.
RECURSIVE SentimentEntries_NoLengthLimit(_, _, _)
SentimentEntries_NoLengthLimit(categories, index, mapped) ==
  IF index >= Len(categories) THEN Return(mapped)
  ELSE
    LET entry == categories[index + 1]
        at == "AI_SENTIMENT categories[" \o ToString(index) \o "]"
    IN IF ~IsString(entry) THEN Throw("TypeMismatch", at \o " must be a string.")
       ELSE IF Trim(entry.s) = "" THEN Throw("BlankField", at \o " cannot be blank.")
       ELSE SentimentEntries_NoLengthLimit(categories, index + 1,
                                           Append(mapped, JStr(Trim(entry.s))))

\* categories.map(...) of parseAiSentimentArgs from entry index + 1 on
RECURSIVE SentimentEntries(_, _, _)
SentimentEntries(categories, index, mapped) ==
  IF index >= Len(categories) THEN Return(mapped)
  ELSE
    LET entry == categories[index + 1]
        at == "AI_SENTIMENT categories[" \o ToString(index) \o "]"
    IN IF ~IsString(entry) THEN Throw("TypeMismatch", at \o " must be a string.")
       ELSE IF Trim(entry.s) = "" THEN Throw("BlankField", at \o " cannot be blank.")
       ELSE IF Len(Trim(entry.s)) > 30
         THEN Throw("BoundsViolation", at \o " exceeds 30 characters.")
       ELSE SentimentEntries(categories, index + 1, Append(mapped, JStr(Trim(entry.s))))

\* A parseAiSentimentArgs without the upper bound on the number of categories.
parseAiSentimentArgs_NoUpperBound(raw) ==
  LET p == parseJsonObject(raw, "args")
      parsed == p.value
      categories == Get(parsed, "categories")
      rest == Rest(parsed, {"text", "categories"})
      resolvedText == requireNonEmptyString(Get(parsed, "text"), "text")
      resolvedCategories ==
        IF ~Defined(categories) THEN Return(Undefined)
        ELSE IF ~IsArray(categories)
          THEN Throw("TypeMismatch", "AI_SENTIMENT categories must be a JSON array of strings.")
        ELSE IF Len(categories.items) = 0
          THEN Throw("BoundsViolation", "AI_SENTIMENT categories cannot be empty.")
        ELSE LET mapped == SentimentEntries(categories.items, 0, << >>)
             IN IF mapped.ok THEN Return(JArr(mapped.value)) ELSE mapped
  IN IF ~p.ok THEN p
     ELSE IF Len(Keys(rest)) > 0 THEN RejectRest("AI_SENTIMENT", rest)
     ELSE IF ~resolvedText.ok THEN resolvedText
     ELSE IF ~resolvedCategories.ok THEN resolvedCategories
     ELSE Return(JObj(Member("text", JStr(resolvedText.value))
                        \o Member("categories", resolvedCategories.value)))

parseAiSentimentArgs(raw) ==
  LET p == parseJsonObject(raw, "args")
      parsed == p.value
      categories == Get(parsed, "categories")
      rest == Rest(parsed, {"text", "categories"})
      resolvedText == requireNonEmptyString(Get(parsed, "text"), "text")
      resolvedCategories ==
        IF ~Defined(categories) THEN Return(Undefined)
        ELSE IF ~IsArray(categories)
          THEN Throw("TypeMismatch", "AI_SENTIMENT categories must be a JSON array of strings.")
        ELSE IF Len(categories.items) = 0
          THEN Throw("BoundsViolation", "AI_SENTIMENT categories cannot be empty.")
        ELSE IF Len(categories.items) > 10
          THEN Throw("BoundsViolation", "AI_SENTIMENT categories supports up to 10 items.")
        ELSE LET mapped == SentimentEntries(categories.items, 0, << >>)
             IN IF mapped.ok THEN Return(JArr(mapped.value)) ELSE mapped
  IN IF ~p.ok THEN p
     ELSE IF Len(Keys(rest)) > 0 THEN RejectRest("AI_SENTIMENT", rest)
     ELSE IF ~resolvedText.ok THEN resolvedText
     ELSE IF ~resolvedCategories.ok THEN resolvedCategories
     ELSE Return(JObj(Member("text", JStr(resolvedText.value))
                        \o Member("categories", resolvedCategories.value)))

parseAiClassifyArgs(raw) ==
  LET p == parseJsonObject(raw, "args")
      parsed == p.value
      input == Get(parsed, "input")
      list_of_categories == Get(parsed, "list_of_categories")
      categories == Get(parsed, "categories")
      config_object == Get(parsed, "config_object")
      config == Get(parsed, "config")
      rest == Rest(parsed, {"input", "list_of_categories", "categories", "config_object", "config"})
      resolvedCategories ==
        normalizeClassifyCategories(Coalesce(categories, list_of_categories), "categories")
      resolvedInput == resolveClassifyInput(input)
      configValue == Coalesce(config_object, config)
  IN IF ~p.ok THEN p
     ELSE IF Len(Keys(rest)) > 0 THEN RejectRest("AI_CLASSIFY", rest)
     ELSE IF Defined(list_of_categories) /\ Defined(categories)
       THEN Throw("AliasConflict", "Provide only one of list_of_categories or categories.")
     ELSE IF ~resolvedCategories.ok THEN resolvedCategories
     ELSE IF Len(resolvedCategories.value) < 2
       THEN Throw("BoundsViolation", "AI_CLASSIFY requires at least two unique categories.")
     ELSE IF ~resolvedInput.ok THEN resolvedInput
     ELSE IF Defined(config_object) /\ Defined(config)
       THEN Throw("AliasConflict", "Provide only one of config_object or config.")
     ELSE IF Defined(configValue) /\ ~isPlainObject(configValue)
       THEN Throw("TypeMismatch", "AI_CLASSIFY config_object must be a JSON object.")
     ELSE Return(JObj(Member("input", resolvedInput.value)
                        \o Member("categories", JArr(resolvedCategories.value))
                        \o MemberIf(Defined(configValue), "config", configValue)))

parseAiCountTokensArgs(raw) ==
  LET p == parseJsonObject(raw, "args")
      parsed == p.value
      function_name == Get(parsed, "function_name")
      functionAlt == Get(parsed, "function")
      input_text == Get(parsed, "input_text")
      text == Get(parsed, "text")
      model_name == Get(parsed, "model_name")
      modelName == Get(parsed, "modelName")
      categories == Get(parsed, "categories")
      rest == Rest(parsed, {"function_name", "function", "input_text", "text",
                            "model_name", "modelName", "categories"})
      trimmedFunctionName ==
        requireTrimmedString(Coalesce(function_name, functionAlt), "function_name")
      rawFunctionName == ToLowerCase(trimmedFunctionName.value)
      inputText == requireNonEmptyString(Coalesce(input_text, text), "input_text")
      hasModelName == Defined(model_name) \/ Defined(modelName)
      resolvedModelName ==
        IF hasModelName
          THEN requireTrimmedString(Coalesce(model_name, modelName), "model_name")
          ELSE Return("")
      hasCategories == Defined(categories)
  IN IF ~p.ok THEN p
     ELSE IF Len(Keys(rest)) > 0 THEN RejectRest("AI_COUNT_TOKENS", rest)
     ELSE IF ~trimmedFunctionName.ok THEN trimmedFunctionName
     ELSE IF ~StartsWith(rawFunctionName, "ai_")
       THEN Throw("BoundsViolation", "AI_COUNT_TOKENS function_name must start with ai_.")
     ELSE IF ~inputText.ok THEN inputText
     ELSE IF Defined(model_name) /\ Defined(modelName)
       THEN Throw("AliasConflict", "Provide only one of model_name or modelName.")
     ELSE IF ~resolvedModelName.ok THEN resolvedModelName
     ELSE IF hasCategories /\ ~IsArray(categories)
       THEN Throw("TypeMismatch", "AI_COUNT_TOKENS categories must be a JSON array.")
     ELSE IF hasModelName /\ hasCategories
       THEN Throw("MutuallyExclusiveViolation",
                  "AI_COUNT_TOKENS accepts either model_name or categories, not both.")
     ELSE Return(JObj(Member("functionName", JStr(rawFunctionName))
                        \o Member("inputText", JStr(inputText.value))
                        \o MemberIf(hasModelName, "modelName", JStr(resolvedModelName.value))
                        \o MemberIf(hasCategories, "categories", categories)))

\* A parseAiEmbedArgs that takes input_file when both input and input_file are given.
parseAiEmbedArgs_FileWins(raw) ==
  LET p == parseJsonObject(raw, "args")
      parsed == p.value
      input == Get(parsed, "input")
      input_file == Get(parsed, "input_file")
      rest == Rest(parsed, {"model", "input", "input_file"})
      resolvedModel == requireTrimmedString(Get(parsed, "model"), "model")
      resolvedInputFile ==
        IF Defined(input_file) THEN requireNonEmptyString(input_file, "input_file")
        ELSE Return("")
      resolvedInput ==
        IF Defined(input_file) THEN Return("") ELSE requireNonEmptyString(input, "input")
  IN IF ~p.ok THEN p
     ELSE IF Len(Keys(rest)) > 0 THEN RejectRest("AI_EMBED", rest)
     ELSE IF ~resolvedModel.ok THEN resolvedModel
     ELSE IF ~resolvedInputFile.ok THEN resolvedInputFile
     ELSE IF ~resolvedInput.ok THEN resolvedInput
     ELSE Return(JObj(Member("model", JStr(resolvedModel.value))
                        \o Member("input", JStr(resolvedInput.value))
                        \o MemberIf(Defined(input_file), "inputFile",
                                    JStr(resolvedInputFile.value))))

parseAiEmbedArgs(raw) ==
  LET p == parseJsonObject(raw, "args")
      parsed == p.value
      input == Get(parsed, "input")
      input_file == Get(parsed, "input_file")
      rest == Rest(parsed, {"model", "input", "input_file"})
      resolvedModel == requireTrimmedString(Get(parsed, "model"), "model")
      resolvedInputFile ==
        IF Defined(input_file) THEN requireNonEmptyString(input_file, "input_file")
        ELSE Return("")
      resolvedInput ==
        IF Defined(input_file) THEN Return("") ELSE requireNonEmptyString(input, "input")
  IN IF ~p.ok THEN p
     ELSE IF Len(Keys(rest)) > 0 THEN RejectRest("AI_EMBED", rest)
     ELSE IF Defined(input) /\ Defined(input_file)
       THEN Throw("MutuallyExclusiveViolation",
                  "AI_EMBED requires either input or input_file, not both.")
     ELSE IF ~resolvedModel.ok THEN resolvedModel
     ELSE IF ~resolvedInputFile.ok THEN resolvedInputFile
     ELSE IF ~resolvedInput.ok THEN resolvedInput
     ELSE Return(JObj(Member("model", JStr(resolvedModel.value))
                        \o Member("input", JStr(resolvedInput.value))
                        \o MemberIf(Defined(input_file), "inputFile",
                                    JStr(resolvedInputFile.value))))

parseAiSimilarityArgs(raw) ==
  LET p == parseJsonObject(raw, "args")
      parsed == p.value
      input1 == Get(parsed, "input1")
      input2 == Get(parsed, "input2")
      input1_file == Get(parsed, "input1_file")
      input2_file == Get(parsed, "input2_file")
      config_object == Get(parsed, "config_object")
      config == Get(parsed, "config")
      rest == Rest(parsed, {"input1", "input2", "input1_file", "input2_file",
                            "config_object", "config"})
      hasText == Defined(input1) \/ Defined(input2)
      hasFile == Defined(input1_file) \/ Defined(input2_file)
      resolvedInput1File ==
        IF hasFile THEN requireNonEmptyString(input1_file, "input1_file") ELSE Return("")
      resolvedInput2File ==
        IF hasFile THEN requireNonEmptyString(input2_file, "input2_file") ELSE Return("")
      resolvedInput1 ==
        IF hasFile THEN Return("") ELSE requireNonEmptyString(input1, "input1")
      resolvedInput2 ==
        IF hasFile THEN Return("") ELSE requireNonEmptyString(input2, "input2")
      configValue == Coalesce(config_object, config)
  IN IF ~p.ok THEN p
     ELSE IF Len(Keys(rest)) > 0 THEN RejectRest("AI_SIMILARITY", rest)
     ELSE IF hasText /\ hasFile
       THEN Throw("MutuallyExclusiveViolation",
                  "AI_SIMILARITY requires either input1/input2 or input1_file/input2_file, not both.")
     ELSE IF ~resolvedInput1File.ok THEN resolvedInput1File
     ELSE IF ~resolvedInput2File.ok THEN resolvedInput2File
     ELSE IF ~resolvedInput1.ok THEN resolvedInput1
     ELSE IF ~resolvedInput2.ok THEN resolvedInput2
     ELSE IF Defined(config_object) /\ Defined(config)
       THEN Throw("AliasConflict", "Provide only one of config_object or config.")
     ELSE IF Defined(configValue) /\ ~isPlainObject(configValue)
       THEN Throw("TypeMismatch", "AI_SIMILARITY config_object must be a JSON object.")
     ELSE Return(JObj(Member("input1", JStr(resolvedInput1.value))
                        \o Member("input2", JStr(resolvedInput2.value))
                        \o MemberIf(hasFile, "input1File", JStr(resolvedInput1File.value))
                        \o MemberIf(hasFile, "input2File", JStr(resolvedInput2File.value))
                        \o MemberIf(Defined(configValue), "config", configValue)))

parseAiParseDocumentArgs(raw) ==
  LET p == parseJsonObject(raw, "args")
      parsed == p.value
      file == Get(parsed, "file")
      file_object == Get(parsed, "file_object")
      options == Get(parsed, "options")
      rest == Rest(parsed, {"file", "file_object", "options"})
      resolvedFile == requireNonEmptyString(Coalesce(file, file_object), "file")
  IN IF ~p.ok THEN p
     ELSE IF Len(Keys(rest)) > 0 THEN RejectRest("AI_PARSE_DOCUMENT", rest)
     ELSE IF Defined(file) /\ Defined(file_object)
       THEN Throw("AliasConflict", "Provide only one of file or file_object.")
     ELSE IF ~resolvedFile.ok THEN resolvedFile
     ELSE IF Defined(options) /\ ~isPlainObject(options)
       THEN Throw("TypeMismatch", "AI_PARSE_DOCUMENT options must be a JSON object.")
     ELSE Return(JObj(Member("file", JStr(resolvedFile.value))
                        \o MemberIf(Defined(options), "options", options)))

(***************************************************************************)
(* The per-function query builders.                                        *)
(***************************************************************************)
\* select ${functionName}(${args.join(', ')}) as response
SelectCall(functionName, args) ==
  "select " \o functionName \o "(" \o Join(args, ", ") \o ") as response"

\* PARSE_JSON(${toSqlString(JSON.stringify(value))})
ParseJsonOf(value) == "PARSE_JSON(" \o toSqlString(JsonStringify(value)) \o ")"

\* A buildAiCompleteSql that emits the model and the prompt by position.
buildAiCompleteSql_Positional(functionName, payload) ==
  LET modelParameters == Get(payload, "modelParameters")
      responseFormat == Get(payload, "responseFormat")
      showDetails == Get(payload, "showDetails")
      args ==
        << toSqlString(Get(payload, "model").s), toSqlString(Get(payload, "prompt").s) >>
          \o (IF Truthy(modelParameters) /\ Len(Keys(modelParameters)) > 0
                THEN << "model_parameters => " \o ParseJsonOf(modelParameters) >> ELSE << >>)
          \o (IF Truthy(responseFormat)
                THEN << "response_format => " \o ParseJsonOf(responseFormat) >> ELSE << >>)
          \o (IF Defined(showDetails)
                THEN << "show_details => " \o (IF Truthy(showDetails) THEN "TRUE" ELSE "FALSE") >>
                ELSE << >>)
  IN SelectCall(functionName, args)

\* A buildAiCompleteSql that emits show_details only when it is true.
buildAiCompleteSql_TruthyShowDetails(functionName, payload) ==
  LET modelParameters == Get(payload, "modelParameters")
      responseFormat == Get(payload, "responseFormat")
      showDetails == Get(payload, "showDetails")
      args ==
        << "model => " \o toSqlString(Get(payload, "model").s),
           "prompt => " \o toSqlString(Get(payload, "prompt").s) >>
          \o (IF Truthy(modelParameters) /\ Len(Keys(modelParameters)) > 0
                THEN << "model_parameters => " \o ParseJsonOf(modelParameters) >> ELSE << >>)
          \o (IF Truthy(responseFormat)
                THEN << "response_format => " \o ParseJsonOf(responseFormat) >> ELSE << >>)
          \o (IF Truthy(showDetails) THEN << "show_details => TRUE" >> ELSE << >>)
  IN SelectCall(functionName, args)

buildAiCompleteSql(functionName, payload) ==
  LET modelParameters == Get(payload, "modelParameters")
      responseFormat == Get(payload, "responseFormat")
      showDetails == Get(payload, "showDetails")
      args ==
        << "model => " \o toSqlString(Get(payload, "model").s),
           "prompt => " \o toSqlString(Get(payload, "prompt").s) >>
          \o (IF Truthy(modelParameters) /\ Len(Keys(modelParameters)) > 0
                THEN << "model_parameters => " \o ParseJsonOf(modelParameters) >> ELSE << >>)
          \o (IF Truthy(responseFormat)
                THEN << "response_format => " \o ParseJsonOf(responseFormat) >> ELSE << >>)
          \o (IF Defined(showDetails)
                THEN << "show_details => " \o (IF Truthy(showDetails) THEN "TRUE" ELSE "FALSE") >>
                ELSE << >>)
  IN SelectCall(functionName, args)

buildAiExtractSql(functionName, payload) ==
  LET text == Get(payload, "text")
      file == Get(payload, "file")
      args ==
        (IF Truthy(text) THEN << "text => " \o toSqlString(text.s) >> ELSE << >>)
          \o (IF Truthy(file) THEN << "file => " \o file.s >> ELSE << >>)
          \o << "responseFormat => " \o ParseJsonOf(Get(payload, "responseFormat")) >>
  IN SelectCall(functionName, args)

buildAiClassifySql(functionName, payload) ==
  LET input == Get(payload, "input")
      config == Get(payload, "config")
      args ==
        << IF IsString(input) THEN "input => " \o toSqlString(input.s)
           ELSE "input => " \o ParseJsonOf(input) >>
          \o << "list_of_categories => " \o ParseJsonOf(Get(payload, "categories")) >>
          \o (IF Truthy(config) THEN << "config_object => " \o ParseJsonOf(config) >> ELSE << >>)
  IN SelectCall(functionName, args)

\* A buildAiCountTokensSql that puts the model name last.
buildAiCountTokensSql_ModelLast(functionName, payload) ==
  LET functionLiteral == toSqlString(Get(payload, "functionName").s)
      textLiteral == toSqlString(Get(payload, "inputText").s)
      modelName == Get(payload, "modelName")
      categories == Get(payload, "categories")
  IN IF Truthy(modelName)
       THEN "select " \o functionName \o "(" \o functionLiteral \o ", "
              \o textLiteral \o ", " \o toSqlString(modelName.s) \o ") as response"
     ELSE IF Truthy(categories)
       THEN "select " \o functionName \o "(" \o functionLiteral \o ", " \o textLiteral
              \o ", " \o ParseJsonOf(categories) \o ") as response"
     ELSE "select " \o functionName \o "(" \o functionLiteral \o ", " \o textLiteral
            \o ") as response"

buildAiCountTokensSql(functionName, payload) ==
  LET functionLiteral == toSqlString(Get(payload, "functionName").s)
      textLiteral == toSqlString(Get(payload, "inputText").s)
      modelName == Get(payload, "modelName")
      categories == Get(payload, "categories")
  IN IF Truthy(modelName)
       THEN "select " \o functionName \o "(" \o functionLiteral \o ", "
              \o toSqlString(modelName.s) \o ", " \o textLiteral \o ") as response"
     ELSE IF Truthy(categories)
       THEN "select " \o functionName \o "(" \o functionLiteral \o ", " \o textLiteral
              \o ", " \o ParseJsonOf(categories) \o ") as response"
     ELSE "select " \o functionName \o "(" \o functionLiteral \o ", " \o textLiteral
            \o ") as response"

buildAiEmbedSql(functionName, payload) ==
  LET modelLiteral == toSqlString(Get(payload, "model").s)
      inputFile == Get(payload, "inputFile")
      inputLiteral ==
        IF Truthy(inputFile) THEN inputFile.s ELSE toSqlString(Get(payload, "input").s)
  IN "select " \o functionName \o "(" \o modelLiteral \o ", " \o inputLiteral \o ") as response"

\* A buildAiSimilaritySql that names the config argument.
buildAiSimilaritySql_NamedConfig(functionName, payload) ==
  LET input1File == Get(payload, "input1File")
      input2File == Get(payload, "input2File")
      config == Get(payload, "config")
      input1Expr ==
        IF Truthy(input1File) THEN input1File.s ELSE toSqlString(Get(payload, "input1").s)
      input2Expr ==
        IF Truthy(input2File) THEN input2File.s ELSE toSqlString(Get(payload, "input2").s)
      args ==
        << input1Expr, input2Expr >>
          \o (IF Truthy(config) THEN << "config_object => " \o ParseJsonOf(config) >>
              ELSE << >>)
  IN SelectCall(functionName, args)

buildAiSimilaritySql(functionName, payload) ==
  LET input1File == Get(payload, "input1File")
      input2File == Get(payload, "input2File")
      config == Get(payload, "config")
      input1Expr ==
        IF Truthy(input1File) THEN input1File.s ELSE toSqlString(Get(payload, "input1").s)
      input2Expr ==
        IF Truthy(input2File) THEN input2File.s ELSE toSqlString(Get(payload, "input2").s)
      args ==
        << input1Expr, input2Expr >>
          \o (IF Truthy(config) THEN << ParseJsonOf(config) >> ELSE << >>)
  IN SelectCall(functionName, args)

buildAiParseDocumentSql(functionName, payload) ==
  LET options == Get(payload, "options")
      args ==
        << "file => " \o Get(payload, "file").s >>
          \o (IF Truthy(options) THEN << "options => " \o ParseJsonOf(options) >> ELSE << >>)
  IN SelectCall(functionName, args)

buildAiSentimentSql(functionName, payload) ==
  LET textLiteral == toSqlString(Get(payload, "text").s)
      categories == Get(payload, "categories")
  IN IF Truthy(categories) /\ Len(categories.items) > 0
       THEN "select " \o functionName \o "(" \o textLiteral \o ", "
              \o ParseJsonOf(categories) \o ") as response"
     ELSE "select " \o functionName \o "(" \o textLiteral \o ") as response"

\* extractFirstValue: the first column of the first row, if any
\* An extractFirstValue that reads the last record.
extractFirstValue_LastRow(rows) ==
  IF Len(rows) = 0 THEN Undefined
  ELSE IF Len(Keys(rows[Len(rows)])) = 0 THEN Undefined
  ELSE Get(rows[Len(rows)], Keys(rows[Len(rows)])[1])

extractFirstValue(rows) ==
  IF Len(rows) = 0 THEN Undefined
  ELSE IF Len(Keys(rows[1])) = 0 THEN Undefined
  ELSE Get(rows[1], Keys(rows[1])[1])

\* A normalizeLogLevel that compares the level as written.
normalizeLogLevel_Exact(value) ==
  IF Defined(value) /\ value.s = "VERBOSE" THEN "VERBOSE" ELSE "MINIMAL"

\* normalizeLogLevel: an unset level (Undefined) reads as MINIMAL
normalizeLogLevel(value) ==
  LET upper == ToUpperCase(IF Nullish(value) THEN "MINIMAL" ELSE value.s)
  IN IF upper = "VERBOSE" THEN "VERBOSE" ELSE "MINIMAL"

(***************************************************************************)
(* main: the switch on the resolved function name.  Each case runs the     *)
(* normalizer, the builder, and builds the request echo and the summary.   *)
(***************************************************************************)
Translated(payload, sqlText, request, lines) ==
  Return([payload |-> payload, sqlText |-> sqlText, request |-> request, lines |-> lines])

LengthLine(label, text) == label \o " length: " \o ToString(Len(text)) \o " chars"
KeysLine(label, obj) == label \o ": " \o Join(Keys(obj), ", ")

CaseComplete(functionName, parsed) ==
  LET payload == parsed.value
      modelParameters == Get(payload, "modelParameters")
      responseFormat == Get(payload, "responseFormat")
      showDetails == Get(payload, "showDetails")
  IN IF ~parsed.ok THEN parsed
     ELSE Translated(
            payload, buildAiCompleteSql(functionName, payload),
            JObj(Member("model", Get(payload, "model"))
                   \o Member("prompt", Get(payload, "prompt"))
                   \o MemberIf(Truthy(modelParameters), "model_parameters", modelParameters)
                   \o MemberIf(Truthy(responseFormat), "response_format", responseFormat)
                   \o MemberIf(Defined(showDetails), "show_details", showDetails)),
            << "Model: " \o Get(payload, "model").s,
               LengthLine("Prompt", Get(payload, "prompt").s) >>
              \o (IF Truthy(modelParameters)
                    THEN << KeysLine("Model parameters", modelParameters) >> ELSE << >>)
              \o (IF Truthy(responseFormat) THEN << "Response format: provided" >> ELSE << >>)
              \o (IF Defined(showDetails)
                    THEN << "Show details: " \o JsonStringify(showDetails) >> ELSE << >>))

CaseExtract(functionName, parsed) ==
  LET payload == parsed.value
      text == Get(payload, "text")
      file == Get(payload, "file")
      responseFormat == Get(payload, "responseFormat")
  IN IF ~parsed.ok THEN parsed
     ELSE Translated(
            payload, buildAiExtractSql(functionName, payload),
            JObj(MemberIf(Truthy(text), "text", text)
                   \o MemberIf(Truthy(file), "file", file)
                   \o Member("response_format", responseFormat)),
            (IF Truthy(text) THEN << LengthLine("Text", text.s) >> ELSE << >>)
              \o (IF Truthy(file) THEN << "File: " \o file.s >> ELSE << >>)
              \o << "Response format: "
                      \o (IF IsArray(responseFormat) THEN "array" ELSE "object") >>)

CaseSentiment(functionName, parsed) ==
  LET payload == parsed.value
      categories == Get(payload, "categories")
  IN IF ~parsed.ok THEN parsed
     ELSE Translated(
            payload, buildAiSentimentSql(functionName, payload),
            JObj(Member("text", Get(payload, "text"))
                   \o MemberIf(Truthy(categories), "categories", categories)),
            << LengthLine("Text", Get(payload, "text").s) >>
              \o (IF Truthy(categories)
                    THEN << "Categories: " \o ToString(Len(categories.items)) >> ELSE << >>))

CaseClassify(functionName, parsed) ==
  LET payload == parsed.value
      config == Get(payload, "config")
  IN IF ~parsed.ok THEN parsed
     ELSE Translated(
            payload, buildAiClassifySql(functionName, payload),
            JObj(Member("input", Get(payload, "input"))
                   \o Member("categories", Get(payload, "categories"))
                   \o MemberIf(Truthy(config), "config_object", config)),
            << "Categories: " \o ToString(Len(Get(payload, "categories").items)) >>
              \o (IF Truthy(config) THEN << KeysLine("Config keys", config) >> ELSE << >>))

CaseCountTokens(functionName, parsed) ==
  LET payload == parsed.value
      modelName == Get(payload, "modelName")
      categories == Get(payload, "categories")
  IN IF ~parsed.ok THEN parsed
     ELSE Translated(
            payload, buildAiCountTokensSql(functionName, payload),
            JObj(Member("function_name", Get(payload, "functionName"))
                   \o Member("input_text", Get(payload, "inputText"))
                   \o MemberIf(Truthy(modelName), "model_name", modelName)
                   \o MemberIf(Truthy(categories), "categories", categories)),
            << "Function name: " \o Get(payload, "functionName").s >>
              \o (IF Truthy(modelName) THEN << "Model: " \o modelName.s >> ELSE << >>)
              \o (IF Truthy(categories)
                    THEN << "Categories: " \o ToString(Len(categories.items)) >> ELSE << >>))

CaseEmbed(functionName, parsed) ==
  LET payload == parsed.value
      inputFile == Get(payload, "inputFile")
  IN IF ~parsed.ok THEN parsed
     ELSE Translated(
            payload, buildAiEmbedSql(functionName, payload),
            JObj(Member("model", Get(payload, "model"))
                   \o (IF Truthy(inputFile) THEN Member("input_file", inputFile)
                       ELSE Member("input", Get(payload, "input")))),
            << "Model: " \o Get(payload, "model").s,
               IF Truthy(inputFile) THEN "Input file: " \o inputFile.s
               ELSE LengthLine("Input", Get(payload, "input").s) >>)

CaseSimilarity(functionName, parsed) ==
  LET payload == parsed.value
      input1File == Get(payload, "input1File")
      input2File == Get(payload, "input2File")
      config == Get(payload, "config")
  IN IF ~parsed.ok THEN parsed
     ELSE Translated(
            payload, buildAiSimilaritySql(functionName, payload),
            JObj((IF Truthy(input1File)
                    THEN Member("input1_file", input1File) \o Member("input2_file", input2File)
                    ELSE Member("input1", Get(payload, "input1"))
                           \o Member("input2", Get(payload, "input2")))
                   \o MemberIf(Truthy(config), "config_object", config)),
            (IF Truthy(input1File) /\ Truthy(input2File)
               THEN << "Input 1 file: " \o input1File.s, "Input 2 file: " \o input2File.s >>
               ELSE << LengthLine("Input 1", Get(payload, "input1").s),
                       LengthLine("Input 2", Get(payload, "input2").s) >>)
              \o (IF Truthy(config) THEN << KeysLine("Config keys", config) >> ELSE << >>))

CaseParseDocument(functionName, parsed) ==
  LET payload == parsed.value
      options == Get(payload, "options")
  IN IF ~parsed.ok THEN parsed
     ELSE Translated(
            payload, buildAiParseDocumentSql(functionName, payload),
            JObj(Member("file", Get(payload, "file"))
                   \o MemberIf(Truthy(options), "options", options)),
            << "File: " \o Get(payload, "file").s >>
              \o (IF Truthy(options) THEN << KeysLine("Options keys", options) >> ELSE << >>))

\* switch (functionName) { ... }
Switch(functionName, argsRaw) ==
  CASE functionName \in {"AI_COMPLETE", "SNOWFLAKE.CORTEX.COMPLETE"} ->
         CaseComplete(functionName, parseAiCompleteArgs(argsRaw))
    [] functionName \in {"AI_EXTRACT", "SNOWFLAKE.CORTEX.EXTRACT"} ->
         CaseExtract(functionName, parseAiExtractArgs(argsRaw))
    [] functionName \in {"AI_SENTIMENT", "SNOWFLAKE.CORTEX.SENTIMENT"} ->
         CaseSentiment(functionName, parseAiSentimentArgs(argsRaw))
    [] functionName \in {"AI_CLASSIFY", "SNOWFLAKE.CORTEX.CLASSIFY"} ->
         CaseClassify(functionName, parseAiClassifyArgs(argsRaw))
    [] functionName \in {"AI_COUNT_TOKENS", "SNOWFLAKE.CORTEX.COUNT_TOKENS"} ->
         CaseCountTokens(functionName, parseAiCountTokensArgs(argsRaw))
    [] functionName \in {"AI_EMBED", "SNOWFLAKE.CORTEX.EMBED"} ->
         CaseEmbed(functionName, parseAiEmbedArgs(argsRaw))
    [] functionName \in {"AI_SIMILARITY", "SNOWFLAKE.CORTEX.SIMILARITY"} ->
         CaseSimilarity(functionName, parseAiSimilarityArgs(argsRaw))
    [] functionName \in {"AI_PARSE_DOCUMENT", "SNOWFLAKE.CORTEX.PARSE_DOCUMENT"} ->
         CaseParseDocument(functionName, parseAiParseDocumentArgs(argsRaw))
    [] OTHER -> Throw("UnsupportedFunction", "Unsupported function '" \o functionName \o "'.")

(***************************************************************************)
(* The run of main as a state machine.                                     *)
(*   env          process.env, the INPUT_ variables of the action included *)
(*   pc           position of main                                         *)
(*   functionName, argsRaw, verbose, sqlText, request, verboseArgs,        *)
(*   summaryLines  the locals of main                                      *)
(*   console      the lines written by console.log / console.error         *)
(*   runSqlCalls  the query texts handed to runSql                         *)
(*   result       what runSql returned                                     *)
(*   outputs      the core.setOutput calls, in order                       *)
(*   failures     the core.setFailed calls, in order                       *)
(*   error        the error caught by main, if any                         *)
(*   probe        scratch state of the component specifications            *)
(***************************************************************************)
VARIABLES env, pc, functionName, argsRaw, verbose, sqlText, request, verboseArgs,
          summaryLines, console, runSqlCalls, result, outputs, failures, error, probe

locals == <<functionName, argsRaw, verbose, sqlText, request, verboseArgs, summaryLines>>
effects == <<console, runSqlCalls, result, outputs, failures, error>>
vars == <<env, pc, locals, effects, probe>>

NoError == [ok |-> TRUE, kind |-> "", msg |-> "", value |-> ""]

\* a || b
Or(a, b) == IF Truthy(a) THEN a ELSE b

\* core.getInput(name): the INPUT_<NAME> variable, '' when unset, trimmed
getInput(name) ==
  LET val == Or(env["INPUT_" \o ToUpperCase(name)], JStr(""))
  IN [val EXCEPT !.s = Trim(val.s)]

pickRequiredInput(inputName, envName) ==
  LET value == Or(getInput(inputName), env[envName])
  IN IF ~Truthy(value) \/ Trim(value.s) = ""
       THEN Throw("MissingInput",
                  "Missing " \o inputName \o " input - provide '" \o inputName
                    \o "' or set " \o envName \o ".")
       ELSE Return(value)

\* A catch block that logs the error and does not call setFailed.
Catch_NoSetFailed(err) ==
  /\ pc' = "failed"
  /\ error' = err
  /\ console' = console \o << "Cortex AI SQL call failed:", err.msg >>
  /\ failures' = failures

\* The catch block of main for a thrown Error: report and setFailed.
Catch(err) ==
  /\ pc' = "failed"
  /\ error' = err
  /\ console' = console \o << "Cortex AI SQL call failed:", err.msg >>
  /\ failures' = Append(failures, err.msg)

\* A functionRaw without the default name.
FunctionRaw_NoDefault == Or(getInput("function"), Or(env.AI_FUNCTION, JStr(""))).s

\* const functionRaw = ...; normalizeFunctionName; assertSupportedFunction
FunctionRaw == Or(Or(getInput("function"), env.AI_FUNCTION), JStr("AI_COMPLETE")).s

ResolveFunction ==
  /\ pc = "start"
  /\ LET normalized == normalizeFunctionName(FunctionRaw)
         supported == assertSupportedFunction(normalized.value)
     IN IF ~normalized.ok
          THEN Catch(normalized) /\ UNCHANGED <<locals, runSqlCalls, result, outputs>>
        ELSE IF ~supported.ok
          THEN Catch(supported) /\ UNCHANGED <<locals, runSqlCalls, result, outputs>>
        ELSE /\ functionName' = normalized.value
             /\ pc' = "resolved"
             /\ UNCHANGED <<argsRaw, verbose, sqlText, request, verboseArgs, summaryLines,
                            effects>>
  /\ UNCHANGED <<env, probe>>

\* const argsRaw = pickRequiredInput(...); const config = gatherConfig(); ...
PickArgs ==
  /\ pc = "resolved"
  /\ LET picked == pickRequiredInput("args", "AI_ARGS")
     IN IF ~picked.ok
          THEN Catch(picked) /\ UNCHANGED <<locals, runSqlCalls, result, outputs>>
          ELSE /\ argsRaw' = picked.value
               /\ verbose' = (normalizeLogLevel(env.SNOWFLAKE_LOG_LEVEL) = "VERBOSE")
               /\ summaryLines' = << "Function: " \o functionName >>
               /\ pc' = "picked"
               /\ UNCHANGED <<functionName, sqlText, request, verboseArgs, effects>>
  /\ UNCHANGED <<env, probe>>

\* the switch: normalize, build, echo
Dispatch(translated) ==
  IF ~translated.ok
    THEN Catch(translated) /\ UNCHANGED <<locals, runSqlCalls, result, outputs>>
    ELSE /\ sqlText' = translated.value.sqlText
         /\ request' = translated.value.request
         /\ verboseArgs' = translated.value.payload
         /\ summaryLines' = summaryLines \o translated.value.lines
         /\ pc' = "built"
         /\ UNCHANGED <<functionName, argsRaw, verbose, effects>>

Translate ==
  /\ pc = "picked"
  /\ Dispatch(Switch(functionName, argsRaw))
  /\ UNCHANGED <<env, probe>>

\* if (verbose) { ... } else { summaryLines.forEach(...) }
EmitLog ==
  /\ pc = "built"
  /\ console' = console \o
       (IF verbose
          THEN << "[VERBOSE] SQL: " \o sqlText,
                  "[VERBOSE] Args: " \o JsonStringify(verboseArgs) >>
          ELSE summaryLines)
  /\ pc' = "logged"
  /\ UNCHANGED <<env, locals, runSqlCalls, result, outputs, failures, error, probe>>

\* await runSql(sqlText, config): the call is made
CallRunSql ==
  /\ pc = "logged"
  /\ runSqlCalls' = Append(runSqlCalls, sqlText)
  /\ pc' = "awaiting"
  /\ UNCHANGED <<env, locals, console, result, outputs, failures, error, probe>>

(***************************************************************************)
(* runSql is the query-execution capability of snowflake-common: it either *)
(* returns { queryId, rowCount, rows } or throws.                          *)
(***************************************************************************)
Row(members) == JObj(members)

RunSqlResults ==
  { [queryId |-> JStr("01b2-q1"), rowCount |-> JNum(1),
     rows |-> << Row(Member("RESPONSE", JStr("It's fine"))) >>],
    [queryId |-> JStr("01b2-q2"), rowCount |-> JNum(1),
     rows |-> << Row(Member("RESPONSE", JObj(Member("score", JNum(7))))
                       \o Member("EXTRA", JStr("second"))) >>],
    [queryId |-> JStr("01b2-q3"), rowCount |-> JNum(0), rows |-> << >>],
    [queryId |-> JStr("01b2-q4"), rowCount |-> JNum(1), rows |-> << Row(<< >>) >>],
    [queryId |-> JStr("01b2-q5"), rowCount |-> JNum(2),
     rows |-> << Row(Member("RESPONSE", JNull)), Row(Member("RESPONSE", JStr("b"))) >>] }

\* What runSql may throw: an Error with a message, or a value that is not an Error.
RunSqlThrown ==
  { [isError |-> TRUE, msg |-> "SQL compilation error: syntax error"],
    [isError |-> FALSE, msg |-> "connection reset"] }

RunSqlReturns ==
  /\ pc = "awaiting"
  /\ \E r \in RunSqlResults : result' = r
  /\ pc' = "returned"
  /\ UNCHANGED <<env, locals, console, runSqlCalls, outputs, failures, error, probe>>

\* What main catches when runSql throws; value tells a thrown value that is not an
\* Error from a thrown Error.
Thrown(thrown) ==
  [Throw("ExecutionError", thrown.msg) EXCEPT
     !.value = IF thrown.isError THEN "" ELSE "not an Error"]

\* A catch block that runs the query again when runSql throws.
RunSqlThrows_Retry ==
  /\ pc = "awaiting"
  /\ \E thrown \in RunSqlThrown :
       /\ error' = Thrown(thrown)
       /\ console' = console \o << "Cortex AI SQL call failed:", thrown.msg >>
       /\ failures' = failures
  /\ pc' = IF runSqlCalls = << sqlText >> THEN "logged" ELSE "failed"
  /\ UNCHANGED <<env, locals, runSqlCalls, result, outputs, probe>>

\* the catch block for what runSql threw
RunSqlThrows ==
  /\ pc = "awaiting"
  /\ \E thrown \in RunSqlThrown :
       /\ error' = Thrown(thrown)
       /\ console' = console \o << "Cortex AI SQL call failed:", thrown.msg >>
       /\ failures' = Append(failures,
                             IF thrown.isError THEN thrown.msg
                             ELSE "Unknown error when running AI SQL")
  /\ pc' = "failed"
  /\ UNCHANGED <<env, locals, runSqlCalls, result, outputs, probe>>

\* extractFirstValue, the output object, the two setOutput calls
Output(value) ==
  JObj(Member("function", JStr(functionName))
         \o Member("request", request)
         \o Member("result",
                   JObj(Member("queryId", result.queryId)
                          \o Member("rowCount", result.rowCount)
                          \o Member("rows", JArr(result.rows))
                          \o Member("value", value))))

\* A report that sets result-json and leaves result-text unset.
Report_JsonOnly ==
  /\ pc = "returned"
  /\ LET value == extractFirstValue(result.rows)
         output == Output(value)
     IN /\ console' = console \o << "Cortex AI SQL call succeeded.",
                                    "Response JSON: " \o JsonPretty(output, 0) >>
        /\ outputs' = outputs \o << << "result-json", JsonStringify(output) >> >>
  /\ pc' = "done"
  /\ UNCHANGED <<env, locals, runSqlCalls, result, failures, error, probe>>

Report ==
  /\ pc = "returned"
  /\ LET value == extractFirstValue(result.rows)
         output == Output(value)
     IN /\ console' = console \o << "Cortex AI SQL call succeeded.",
                                    "Response JSON: " \o JsonPretty(output, 0) >>
        /\ outputs' = outputs \o
             << << "result-json", JsonStringify(output) >>,
                << "result-text",
                   IF Defined(value)
                     THEN (IF IsString(value) THEN value.s ELSE JsonStringify(value))
                     ELSE "" >> >>
  /\ pc' = "done"
  /\ UNCHANGED <<env, locals, runSqlCalls, result, failures, error, probe>>

(***************************************************************************)
(* The inputs of a run.  An args document is a base document of a function *)
(* with at most MaxMods of the function's modifications applied; a         *)
(* modification sets one key, or removes it when its value is Undefined.   *)
(***************************************************************************)
MaxMods == 1
MaxCategories == 2

Str30 == "abcdefghijklmnopqrstuvwxyz0123"
Str31 == "abcdefghijklmnopqrstuvwxyz01234"

Strs(ss) == [i \in 1..Len(ss) |-> JStr(ss[i])]

Families ==
  {"COMPLETE", "EXTRACT", "SENTIMENT", "CLASSIFY", "COUNT_TOKENS", "EMBED",
   "SIMILARITY", "PARSE_DOCUMENT"}

\* The capability a supported name refers to: the name without its prefix.
Family(name) ==
  IF StartsWith(name, "AI_") THEN SubSeq(name, 4, Len(name))
  ELSE IF StartsWith(name, "SNOWFLAKE.CORTEX.") THEN SubSeq(name, 18, Len(name))
  ELSE name

BaseDocs(family) ==
  CASE family = "COMPLETE" ->
         { JObj(Member("model", JStr("snowflake-arctic")) \o Member("prompt", JStr("Hi"))) }
    [] family = "EXTRACT" ->
         { JObj(Member("text", JStr("Who's there"))
                  \o Member("response_format", JObj(Member("name", JStr("who?"))))),
           JObj(Member("file", JStr("TO_FILE('@docs/a.pdf')"))
                  \o Member("response_format", JArr(Strs(<< "title" >>)))) }
    [] family = "SENTIMENT" -> { JObj(Member("text", JStr("good food"))) }
    [] family = "CLASSIFY" ->
         { JObj(Member("input", JStr("refund please"))
                  \o Member("categories", JArr(Strs(<< "billing", "support" >>)))) }
    [] family = "COUNT_TOKENS" ->
         { JObj(Member("function_name", JStr("AI_COMPLETE"))
                  \o Member("input_text", JStr("hello"))) }
    [] family = "SUMMARIZE" -> { JObj(Member("text", JStr("A long article"))) }
    [] family = "EMBED" ->
         { JObj(Member("model", JStr("e5-base")) \o Member("input", JStr("hello"))),
           JObj(Member("model", JStr("e5-base"))
                  \o Member("input_file", JStr("TO_FILE('@img/a.png')"))) }
    [] family = "SIMILARITY" ->
         { JObj(Member("input1", JStr("a")) \o Member("input2", JStr("b"))),
           JObj(Member("input1_file", JStr("TO_FILE('@img/a.png')"))
                  \o Member("input2_file", JStr("TO_FILE('@img/b.png')"))) }
    [] family = "PARSE_DOCUMENT" ->
         { JObj(Member("file", JStr("TO_FILE('@docs/report.pdf')"))) }
    [] OTHER -> { }

Mods(family) ==
  CASE family = "COMPLETE" ->
         << << "model", JStr(" arctic ") >>,
            << "model", Undefined >>,
            << "prompt", JStr("O'Brien") >>,
            << "prompt", JStr("  ") >>,
            << "model_parameters", JObj(Member("temperature", JNum(1))) >>,
            << "modelParameters",
               JObj(Member("top_p", JNum(2)) \o Member("temperature", JNum(3))) >>,
            << "options", JObj(Member("max_tokens", JNum(4))) >>,
            << "options", EmptyObject >>,
            << "response_format", JObj(Member("type", JStr("json"))) >>,
            << "responseFormat", JObj(Member("type", JStr("it's"))) >>,
            << "show_details", JBool(FALSE) >>,
            << "showDetails", JBool(TRUE) >>,
            << "show_details", JStr("yes") >>,
            << "model_parameters", JArr(<< JNum(1) >>) >>,
            << "temperature", JNum(7) >>,
            << "options", JObj(Member("temperature", JNum(9))) >> >>
    [] family = "EXTRACT" ->
         << << "text", Undefined >>,
            << "text", JNull >>,
            << "text", JStr("  ") >>,
            << "text", JNum(5) >>,
            << "file", JStr("TO_FILE('@docs/b.pdf')") >>,
            << "file", JStr("f) , 1 -- '") >>,
            << "file", Undefined >>,
            << "response_format", Undefined >>,
            << "response_format", JStr("schema") >>,
            << "responseFormat", JArr(Strs(<< "q's?" >>)) >>,
            << "model", JStr("x") >> >>
    [] family = "SENTIMENT" ->
         << << "text", Undefined >>,
            << "text", JStr("it's ok") >>,
            << "categories", JArr(Strs(<< "food", "price" >>)) >>,
            << "categories", JArr(<< >>) >>,
            << "categories",
               JArr(Strs(<< "c1", "c2", "c3", "c4", "c5", "c6", "c7", "c8", "c9", "c10" >>)) >>,
            << "categories",
               JArr(Strs(<< "c1", "c2", "c3", "c4", "c5", "c6", "c7", "c8", "c9", "c10",
                            "c11" >>)) >>,
            << "categories", JArr(Strs(<< Str30 >>)) >>,
            << "categories", JArr(Strs(<< Str31 >>)) >>,
            << "categories", JArr(Strs(<< " food ", "food" >>)) >>,
            << "categories", JStr("food") >>,
            << "categories", JArr(<< JStr("food"), JNum(5) >>) >>,
            << "categories", JArr(Strs(<< "food", " " >>)) >>,
            << "aspect", JStr("x") >>,
            << "categories",
               JArr(Strs(<< "c1", "c2", "c3", "c4", "c5", "c6", "c7", "c8", "c9", "c10",
                            " c1 " >>)) >>,
            << "categories", JArr(Strs(<< " " \o Str30 \o " " >>)) >>,
            << "categories",
               JArr(<< JNum(1) >>
                      \o Strs(<< "c2", "c3", "c4", "c5", "c6", "c7", "c8", "c9", "c10",
                                 "c11" >>)) >> >>
    [] family = "CLASSIFY" ->
         << << "input", Undefined >>,
            << "input", JObj(Member("text", JStr("it's late"))) >>,
            << "input", JStr("  ") >>,
            << "input", JNum(5) >>,
            << "categories", Undefined >>,
            << "categories", JArr(Strs(<< "billing", "billing", "support" >>)) >>,
            << "categories", JArr(Strs(<< "billing" >>)) >>,
            << "categories", JArr(Strs(<< "a", " a ", "a" >>)) >>,
            << "categories", JArr(<< >>) >>,
            << "categories", JArr(Strs(<< "a", "" >>)) >>,
            << "categories",
               JArr(<< JObj(Member("label", JStr("a")) \o Member("description", JStr(" d "))),
                       JObj(Member("label", JStr(" a ")) \o Member("description", JNum(5))),
                       JStr("b") >>) >>,
            << "list_of_categories", JArr(Strs(<< "x", "y's" >>)) >>,
            << "config_object", JObj(Member("task_description", JStr("route"))) >>,
            << "config", JObj(Member("output_mode", JStr("multi"))) >>,
            << "config_object", JStr("s") >>,
            << "labels", JArr(<< >>) >> >>
    [] family = "COUNT_TOKENS" ->
         << << "function_name", Undefined >>,
            << "function_name", JStr("complete") >>,
            << "function_name", JStr(" Ai_Sentiment ") >>,
            << "function_name", JNull >>,
            << "function", JStr("ai_embed") >>,
            << "input_text", Undefined >>,
            << "text", JStr("alt's text") >>,
            << "model_name", JStr("llama3") >>,
            << "model_name", JStr(" ") >>,
            << "modelName", JStr(" mistral ") >>,
            << "categories", JArr(Strs(<< "a" >>)) >>,
            << "categories", JArr(<< >>) >>,
            << "categories", JStr("a") >>,
            << "extra", JBool(TRUE) >> >>
    [] family = "EMBED" ->
         << << "model", Undefined >>,
            << "input", Undefined >>,
            << "input", JStr("it's") >>,
            << "input", JStr(" ") >>,
            << "input_file", JStr("TO_FILE('@img/c.png')") >>,
            << "input_file", JStr("  ") >>,
            << "input_file", JNull >>,
            << "dimensions", JNum(8) >> >>
    [] family = "SIMILARITY" ->
         << << "input1", Undefined >>,
            << "input2", Undefined >>,
            << "input1", JStr("x'y") >>,
            << "input1_file", JStr("TO_FILE('@img/c.png')") >>,
            << "input2_file", JStr("TO_FILE('@img/d.png')") >>,
            << "config_object", JObj(Member("model", JStr("e5's"))) >>,
            << "config", JObj(Member("a", JNum(1))) >>,
            << "config", JNum(5) >>,
            << "input3", JStr("c") >>,
            << "input1_file", Undefined >>,
            << "input2_file", Undefined >> >>
    [] family = "PARSE_DOCUMENT" ->
         << << "file", Undefined >>,
            << "file", JStr(" ") >>,
            << "file", JStr("f) ; drop table t --") >>,
            << "file_object", JStr("TO_FILE('@docs/x.pdf')") >>,
            << "options", JObj(Member("mode", JStr("LAYOUT"))) >>,
            << "options", JStr("LAYOUT") >>,
            << "page_split", JBool(TRUE) >> >>
    [] OTHER -> << >>

ApplyMod(doc, mod) ==
  IF Defined(mod[2]) THEN JObj(SetMember(doc.members, mod[1], mod[2]))
  ELSE JObj(RestMembers(doc.members, {mod[1]}))

RECURSIVE ApplyMods(_, _, _, _)
ApplyMods(doc, mods, chosen, i) ==
  IF i > Len(mods) THEN doc
  ELSE ApplyMods(IF i \in chosen THEN ApplyMod(doc, mods[i]) ELSE doc, mods, chosen, i + 1)

\* Modifications taken together whatever MaxMods is: the positions in Mods
\* of the two spellings of a field, of two fields that exclude each other,
\* of the two members of a pair, of two sources of one parameter, and of a
\* quoted prompt with a response format.
Combos(family) ==
  CASE family = "COMPLETE" ->
         { {5, 6}, {9, 10}, {11, 12}, {3, 9}, {7, 15}, {5, 15}, {6, 16}, {15, 16} }
    [] family = "EXTRACT" -> { {5, 10}, {1, 5} }
    [] family = "SENTIMENT" -> { {2, 3} }
    [] family = "CLASSIFY" -> { {6, 12}, {13, 14}, {2, 6}, {1, 7}, {1, 16} }
    [] family = "COUNT_TOKENS" -> { {5, 7}, {8, 10}, {8, 11}, {1, 5}, {6, 7} }
    [] family = "EMBED" -> { {3, 5}, {2, 5} }
    [] family = "SIMILARITY" -> { {4, 5}, {6, 7}, {3, 6}, {1, 2}, {10, 11} }
    [] family = "PARSE_DOCUMENT" -> { {4, 5}, {1, 4} }
    [] OTHER -> { }

Choices(family) ==
  { T \in SUBSET (1..Len(Mods(family))) : Cardinality(T) <= MaxMods } \cup Combos(family)

Docs(family) ==
  { ApplyMods(base, Mods(family), chosen, 1) :
      base \in BaseDocs(family), chosen \in Choices(family) }

\* CLASSIFY documents over every categories list of at most MaxCategories entries
CategoryEntries ==
  { JStr("billing"), JStr(" billing "), JStr("support"),
    JObj(Member("label", JStr("billing")) \o Member("description", JStr("invoices"))),
    JObj(Member("label", JStr("support "))),
    JObj(Member("label", JStr("sales")) \o Member("description", JStr("  "))) }

CategoryLists == UNION { [1..n -> CategoryEntries] : n \in 0..MaxCategories }

CategoryDocs ==
  { JObj(Member("input", JStr("refund please")) \o Member("categories", JArr(list))) :
      list \in CategoryLists }

\* The args text of a document, and texts that are not a JSON object.
TextOf(doc) == RawText(JsonStringify(doc), doc)

OddTexts ==
  { RawText("", Undefined), RawText("   ", Undefined), RawText("{oops", Undefined),
    RawText("model=x", Undefined),
    RawText("[1]", JArr(<< JNum(1) >>)), RawText("\"text\"", JStr("text")),
    RawText("5", JNum(5)), RawText("true", JBool(TRUE)), RawText("null", JNull),
    RawText("  {\"model\":\"m\",\"prompt\":\"p\"} \n",
            JObj(Member("model", JStr("m")) \o Member("prompt", JStr("p")))) }

\* Spellings of a function name: letter case and surrounding white space.
RECURSIVE AlternateCase(_, _)
AlternateCase(s, upperFirst) ==
  IF s = "" THEN ""
  ELSE (IF upperFirst THEN UpperChar(Head(s)) ELSE LowerChar(Head(s)))
         \o AlternateCase(Tail(s), ~upperFirst)

Spellings(name) ==
  { name, ToLowerCase(name), AlternateCase(name, TRUE), AlternateCase(name, FALSE),
    " " \o name, name \o "\n", "\t" \o ToLowerCase(name) \o "  " }

SpellingsOf == [name \in SUPPORTED_FUNCTION_SET |-> Spellings(name)]

SupportedSpellings == UNION { SpellingsOf[name] : name \in SUPPORTED_FUNCTION_SET }

OtherNames ==
  { "AI_SUMMARIZE", "SNOWFLAKE.CORTEX.SUMMARIZE", "ai_summarize", "AI_COMPLET",
    "AI_COMPLETE2", "XAI_COMPLETE", "AI COMPLETE", "AI_ COMPLETE", "COMPLETE",
    "CORTEX.COMPLETE", "SNOWFLAKE.CORTEX.", "AI_", "AI_EMBEDDING", "AI_CLASSIFY_TEXT",
    "AI_TRANSLATE", "SNOWFLAKE.CORTEX.EMBED_TEXT", "AI_COMPLETE;" }

BlankNames == { "", " ", "\t\n", "   " }

RawNames == SupportedSpellings \cup OtherNames \cup BlankNames

LogLevels == { Undefined, JStr("VERBOSE"), JStr("verbose"), JStr("Verbose"),
               JStr("MINIMAL"), JStr("debug"), JStr(""), JStr(" VERBOSE") }

Env(functionInput, functionEnv, argsInput, argsEnv, logLevel) ==
  [ INPUT_FUNCTION |-> functionInput, AI_FUNCTION |-> functionEnv,
    INPUT_ARGS |-> argsInput, AI_ARGS |-> argsEnv, SNOWFLAKE_LOG_LEVEL |-> logLevel ]

\* The base document of the function a raw name refers to (COMPLETE otherwise).
BaseTexts(rawName) ==
  LET family == Family(ToUpperCase(Trim(rawName)))
  IN { TextOf(doc) : doc \in BaseDocs(IF family \in Families \cup {"SUMMARIZE"}
                                        THEN family ELSE "COMPLETE") }

\* Runs that vary the function name and where it comes from.
NameRuns ==
  UNION { { Env(JStr(name), Undefined, args, Undefined, Undefined) :
              args \in BaseTexts(name) } : name \in RawNames }
  \cup
  UNION { { Env(functionInput, JStr(name), args, Undefined, Undefined) :
              functionInput \in { Undefined, JStr(""), JStr("  ") },
              args \in BaseTexts(name) } : name \in RawNames }
  \cup
  { Env(JStr("ai_embed"), JStr("AI_SENTIMENT"), args, Undefined, Undefined) :
      args \in BaseTexts("AI_EMBED") }
  \cup
  { Env(functionInput, Undefined, args, Undefined, Undefined) :
      functionInput \in { Undefined, JStr(""), JStr("  ") },
      args \in BaseTexts("AI_COMPLETE") }

\* Runs that vary the args document of each function.
DocRuns ==
  UNION { { Env(JStr("AI_" \o family), Undefined, TextOf(doc), Undefined, Undefined) :
              doc \in Docs(family) } : family \in Families }
  \cup
  { Env(JStr("AI_CLASSIFY"), Undefined, TextOf(doc), Undefined, Undefined) :
      doc \in CategoryDocs }

\* Runs that vary the args text, where it comes from, and the log level.
TextRuns ==
  { Env(JStr(name), Undefined, argsInput, argsEnv, Undefined) :
      name \in { "AI_COMPLETE", "SNOWFLAKE.CORTEX.EMBED" },
      argsInput \in { Undefined } \cup OddTexts,
      argsEnv \in { Undefined } \cup OddTexts }
  \cup
  UNION { { Env(JStr(name), Undefined, args, Undefined, logLevel) :
              args \in BaseTexts(name), logLevel \in LogLevels } :
          name \in SUPPORTED_FUNCTION_SET }
  \cup
  { Env(JStr(name), Undefined, args, Undefined, logLevel) :
      name \in SUPPORTED_FUNCTION_SET,
      args \in OddTexts \cup { TextOf(EmptyObject) },
      logLevel \in { Undefined, JStr("VERBOSE") } }

Runs == NameRuns \cup DocRuns \cup TextRuns

Idle ==
  /\ functionName = ""
  /\ argsRaw = Undefined
  /\ verbose = FALSE
  /\ sqlText = ""
  /\ request = EmptyObject
  /\ verboseArgs = EmptyObject
  /\ summaryLines = << >>
  /\ console = << >>
  /\ runSqlCalls = << >>
  /\ result = Undefined
  /\ outputs = << >>
  /\ failures = << >>
  /\ error = NoError

Init ==
  /\ env \in Runs
  /\ pc = "start"
  /\ Idle
  /\ probe = << >>

Next ==
  \/ ResolveFunction
  \/ PickArgs
  \/ Translate
  \/ EmitLog
  \/ CallRunSql
  \/ RunSqlReturns
  \/ RunSqlThrows
  \/ Report

Spec == Init /\ [][Next]_vars

\* main is one async function run to completion by the event loop: it waits only for
\* runSql, whose promise settles, returning or throwing.  So a run that has not ended
\* moves on to its next position.  Every action of Next is enabled whenever pc is at
\* its position and changes pc, so this is weak fairness of Next, stated on pc.
Positions ==
  { "start", "resolved", "picked", "built", "logged", "awaiting", "returned", "done",
    "failed" }

Advance == pc \notin {"done", "failed"} /\ pc' \in Positions \ {pc}

SpecLive == Spec /\ WF_pc(Advance)

(***************************************************************************)
(* Reading a query text back.  Skeleton scans the text as SQL does: a      *)
(* single quote opens a literal, a doubled quote inside a literal is one   *)
(* quote character, a lone quote closes it.  Each literal is replaced by   *)
(* "?"; with refs, each file-reference expression met outside a literal is *)
(* replaced by "@".  A literal left open at the end reads "<open>".        *)
(***************************************************************************)
HasQuote(text, lo, hi) == \E i \in lo..hi : CharAt(text, i) = "'"

RECURSIVE FirstQuote(_, _, _)
FirstQuote(text, lo, hi) ==
  IF lo >= hi THEN lo
  ELSE LET mid == (lo + hi) \div 2
       IN IF HasQuote(text, lo, mid) THEN FirstQuote(text, lo, mid)
          ELSE FirstQuote(text, mid + 1, hi)

\* The index of the first quote character at or after from, 0 if there is none.
NextQuote(text, from) ==
  IF HasQuote(text, from, Len(text)) THEN FirstQuote(text, from, Len(text)) ELSE 0

Matches(text, i, ref) == SubSeq(text, i, i + Len(ref) - 1) = ref
HasMatch(text, lo, hi, ref) == \E i \in lo..hi : Matches(text, i, ref)

RECURSIVE FirstMatch(_, _, _, _)
FirstMatch(text, lo, hi, ref) ==
  IF lo >= hi THEN lo
  ELSE LET mid == (lo + hi) \div 2
       IN IF HasMatch(text, lo, mid, ref) THEN FirstMatch(text, lo, mid, ref)
          ELSE FirstMatch(text, mid + 1, hi, ref)

RECURSIVE ScanOutside(_, _, _), ScanLiteral(_, _, _)
ScanOutside(text, from, refs) ==
  LET quote == NextQuote(text, from)
      upto == IF quote = 0 THEN Len(text) ELSE quote
      hasRef == Len(refs) > 0 /\ HasMatch(text, from, upto, Head(refs))
      ref == FirstMatch(text, from, upto, Head(refs))
  IN IF hasRef
       THEN SubSeq(text, from, ref - 1) \o "@"
              \o ScanOutside(text, ref + Len(Head(refs)), Tail(refs))
     ELSE IF quote = 0 THEN SubSeq(text, from, Len(text))
     ELSE SubSeq(text, from, quote - 1) \o "?" \o ScanLiteral(text, quote + 1, refs)

ScanLiteral(text, from, refs) ==
  LET quote == NextQuote(text, from)
  IN IF quote = 0 THEN "<open>"
     ELSE IF quote < Len(text) /\ CharAt(text, quote + 1) = "'"
       THEN ScanLiteral(text, quote + 2, refs)
     ELSE ScanOutside(text, quote + 1, refs)

Skeleton(text) == ScanOutside(text, 1, << >>)
SkeletonWithRefs(text, refs) == ScanOutside(text, 1, refs)

\* The argument lists a call of each function may have: "?" a quoted
\* literal, "@" a file-reference expression.
Opt(arg) == { << >>, << arg >> }

ArgShapes(family) ==
  CASE family = "COMPLETE" ->
         { << "model => ?", "prompt => ?" >> \o mp \o rf \o sd :
             mp \in Opt("model_parameters => PARSE_JSON(?)"),
             rf \in Opt("response_format => PARSE_JSON(?)"),
             sd \in Opt("show_details => TRUE") \cup Opt("show_details => FALSE") }
    [] family = "EXTRACT" ->
         { << "text => ?", "responseFormat => PARSE_JSON(?)" >>,
           << "file => @", "responseFormat => PARSE_JSON(?)" >> }
    [] family = "SENTIMENT" -> { << "?" >> \o c : c \in Opt("PARSE_JSON(?)") }
    [] family = "CLASSIFY" ->
         { << i, "list_of_categories => PARSE_JSON(?)" >> \o c :
             i \in { "input => ?", "input => PARSE_JSON(?)" },
             c \in Opt("config_object => PARSE_JSON(?)") }
    [] family = "COUNT_TOKENS" ->
         { << "?", "?" >>, << "?", "?", "?" >>, << "?", "?", "PARSE_JSON(?)" >> }
    [] family = "EMBED" -> { << "?", "?" >>, << "?", "@" >> }
    [] family = "SIMILARITY" ->
         { io \o c : io \in { << "?", "?" >>, << "@", "@" >> }, c \in Opt("PARSE_JSON(?)") }
    [] family = "PARSE_DOCUMENT" ->
         { << "file => @" >> \o o : o \in Opt("options => PARSE_JSON(?)") }
    [] OTHER -> { }

CallOf(name, args) == "select " \o name \o "(" \o Join(args, ", ") \o ") as response"

CallShapes(name) == { CallOf(name, args) : args \in ArgShapes(Family(name)) }

RECURSIVE Substitute(_, _, _)
Substitute(s, from, to) ==
  IF Len(s) = 0 THEN ""
  ELSE IF Len(s) = 1 THEN (IF s = from THEN to ELSE s)
  ELSE Substitute(FirstHalf(s), from, to) \o Substitute(SecondHalf(s), from, to)

\* The shapes in which every argument taken from args is a quoted literal.
LiteralShapes(name) == { Substitute(shape, "@", "?") : shape \in CallShapes(name) }

\* The file-reference expressions of a payload, in the order the call has them.
FileRefs(payload) ==
  LET Ref(key) == IF Truthy(Get(payload, key)) THEN << Get(payload, key).s >> ELSE << >>
  IN CASE Family(functionName) \in {"EXTRACT", "PARSE_DOCUMENT"} -> Ref("file")
       [] Family(functionName) = "EMBED" -> Ref("inputFile")
       [] Family(functionName) = "SIMILARITY" -> Ref("input1File") \o Ref("input2File")
       [] OTHER -> << >>

Built == sqlText # ""

\* C1 (as stated): in every run that builds a query, every string taken
\* from args stands in the query text as a quoted literal: outside its
\* literals the text is one of the fixed call shapes of the function.
C1_EveryStringQuoted == Built => Skeleton(sqlText) \in LiteralShapes(functionName)

\* C1 (amended): every string taken from args other than a file-reference
\* field (EXTRACT file, EMBED input_file, SIMILARITY input1_file and
\* input2_file, PARSE_DOCUMENT file) stands in the query text as a quoted
\* literal; a file reference stands verbatim in its argument position.
C1_NonFileStringsQuoted ==
  Built => SkeletonWithRefs(sqlText, FileRefs(verboseArgs)) \in CallShapes(functionName)

\* A COMPLETE query has been built whose prompt holds a quote character
\* and whose response format is given.
C1_Witness ==
  /\ pc = "built"
  /\ functionName = "AI_COMPLETE"
  /\ Get(verboseArgs, "prompt").s = "O'Brien"
  /\ Has(request, "response_format")

(***************************************************************************)
(* Where a run of main stands.                                             *)
(***************************************************************************)
\* ResolveFunction has acted.
Resolved == pc # "start"

\* Translate has acted: the switch ran on the picked args, and threw or built.
Dispatched == pc \notin {"start", "resolved", "picked"} /\ argsRaw.t = "string"

\* C2: a run that fails in function-name resolution, in the args-presence
\* check or in args normalization has made no runSql call, has set no
\* output, and has reported its message through setFailed; and a run that
\* has called runSql resolved its function, found its args, and built the
\* query text it handed over, once.
C2_ValidationFailureRunsNoQuery ==
  /\ (pc = "failed" /\ error.kind # "ExecutionError") =>
       /\ runSqlCalls = << >>
       /\ outputs = << >>
       /\ failures = << error.msg >>
  /\ runSqlCalls # << >> =>
       LET resolved == normalizeFunctionName(FunctionRaw)
           translated == Switch(functionName, argsRaw)
       IN /\ resolved.ok
          /\ assertSupportedFunction(resolved.value).ok
          /\ functionName = resolved.value
          /\ pickRequiredInput("args", "AI_ARGS") = Return(argsRaw)
          /\ translated.ok
          /\ runSqlCalls = << translated.value.sqlText >>

\* A run has failed in args normalization: an alias conflict was reported.
C2_Witness ==
  /\ pc = "failed"
  /\ error.kind = "AliasConflict"
  /\ failures = << error.msg >>
  /\ runSqlCalls = << >>

\* The alias groups of each function: the two spellings of one field.
AliasGroups(family) ==
  CASE family = "COMPLETE" ->
         { << "model_parameters", "modelParameters" >>,
           << "response_format", "responseFormat" >>,
           << "show_details", "showDetails" >> }
    [] family = "EXTRACT" -> { << "response_format", "responseFormat" >> }
    [] family = "CLASSIFY" ->
         { << "categories", "list_of_categories" >>, << "config_object", "config" >> }
    [] family = "COUNT_TOKENS" ->
         { << "function_name", "function" >>, << "input_text", "text" >>,
           << "model_name", "modelName" >> }
    [] family = "SIMILARITY" -> { << "config_object", "config" >> }
    [] family = "PARSE_DOCUMENT" -> { << "file", "file_object" >> }
    [] OTHER -> { }

BothSpellings(doc, group) == Defined(Get(doc, group[1])) /\ Defined(Get(doc, group[2]))

\* C3 (as stated): no args object that supplies both spellings of an alias
\* group of its function is normalized: a query is built only from args
\* that supply at most one spelling of each group.
C3_AliasConflictsRejected ==
  pc = "built" =>
    \A group \in AliasGroups(Family(functionName)) : ~BothSpellings(argsRaw.doc, group)

\* C4 (as stated): the names AI_SUMMARIZE and SNOWFLAKE.CORTEX.SUMMARIZE
\* pass the supported-function check.
C4_SummarizeSupported ==
  (Resolved /\ ToUpperCase(Trim(FunctionRaw))
                 \in {"AI_SUMMARIZE", "SNOWFLAKE.CORTEX.SUMMARIZE"})
    => error.kind # "UnsupportedFunction"

\* C5: a name that differs from a supported name x only in letter case or
\* surrounding white space resolves as x does, and resolving the resolved
\* name again gives the same name, which is supported.
C5_ResolveCaseInsensitiveIdempotent ==
  Resolved =>
    LET raw == FunctionRaw
    IN \A x \in SUPPORTED_FUNCTION_SET :
         raw \in SpellingsOf[x] =>
           /\ functionName = normalizeFunctionName(x).value
           /\ normalizeFunctionName(functionName) = Return(functionName)
           /\ assertSupportedFunction(functionName).ok

\* A dotted alias in lower case with white space around it has been resolved.
C5_Witness ==
  /\ pc = "resolved"
  /\ FunctionRaw = "\t" \o "snowflake.cortex.embed" \o "  "
  /\ functionName = "SNOWFLAKE.CORTEX.EMBED"

AfterName(text, name) == SubSeq(text, Len("select " \o name) + 1, Len(text))

C7_ExactLookup ==
  (Resolved /\ Trim(FunctionRaw) # ""
     /\ ToUpperCase(Trim(FunctionRaw)) \notin SUPPORTED_FUNCTION_SET) =>
    /\ pc = "failed"
    /\ error.kind = "UnsupportedFunction"
    /\ functionName = ""
    /\ verboseArgs = EmptyObject
    /\ request = EmptyObject
    /\ sqlText = ""
    /\ runSqlCalls = << >>

\* A proper prefix of a supported name has been rejected.
C7_Witness ==
  /\ pc = "failed"
  /\ FunctionRaw = "AI_COMPLET"
  /\ error.kind = "UnsupportedFunction"

\* The function input is absent, empty or white space only.
NoFunctionInput == ~Defined(env.INPUT_FUNCTION) \/ Trim(env.INPUT_FUNCTION.s) = ""
\* AI_FUNCTION is absent or empty; it is white space only.
NoFunctionEnv == ~Defined(env.AI_FUNCTION) \/ env.AI_FUNCTION.s = ""
BlankFunctionEnv == ~NoFunctionEnv /\ Trim(env.AI_FUNCTION.s) = ""

\* The function name the caller supplied: the function input when it is
\* set, AI_FUNCTION otherwise.
SuppliedName ==
  IF Defined(env.INPUT_FUNCTION) THEN env.INPUT_FUNCTION ELSE env.AI_FUNCTION

\* C8 (as stated): a run whose supplied function name is empty or white
\* space only fails with the missing-function-name error.
C8_BlankNameIsMissing ==
  (Resolved /\ Defined(SuppliedName) /\ Trim(SuppliedName.s) = "") =>
    (pc = "failed" /\ error.kind = "MissingFunctionName")

\* C8 (amended): an empty or white-space-only function input counts as
\* absent, and so does an empty AI_FUNCTION: with both absent the function
\* is AI_COMPLETE. The missing-function-name error is reported exactly when
\* the function input is absent and AI_FUNCTION is white space only; then
\* no function is resolved and no query is built or run.
C8_BlankNameDefaultsOrMissing ==
  Resolved =>
    /\ (NoFunctionInput /\ NoFunctionEnv) =>
         (functionName = "AI_COMPLETE" /\ error.kind # "MissingFunctionName")
    /\ (NoFunctionInput /\ BlankFunctionEnv) =>
         /\ pc = "failed"
         /\ error.kind = "MissingFunctionName"
         /\ functionName = ""
         /\ sqlText = ""
         /\ runSqlCalls = << >>
    /\ error.kind = "MissingFunctionName" => (NoFunctionInput /\ BlankFunctionEnv)

\* A white-space-only function input with a white-space-only AI_FUNCTION
\* has failed for the missing name.
C8_Witness ==
  /\ pc = "failed"
  /\ env.INPUT_FUNCTION = JStr("  ")
  /\ env.AI_FUNCTION = JStr(" ")
  /\ error.kind = "MissingFunctionName"

(***************************************************************************)
(* The Value Escaper on its own: toSqlString applied to every string of at *)
(* most MaxLen characters over an alphabet with the quote character, then  *)
(* decoded by stripping the outer quotes and undoing the doubling.         *)
(***************************************************************************)
MaxLen == 4

Alphabet == { "a", "'", "\"" }

RECURSIVE StringsUpTo(_)
StringsUpTo(n) ==
  IF n = 0 THEN { "" }
  ELSE LET shorter == StringsUpTo(n - 1)
       IN shorter \cup { s \o c : s \in shorter, c \in Alphabet }

EscaperInputs == StringsUpTo(MaxLen) \cup { "O'Brien", "it''s", "'" \o Str30 \o "'" }

\* Undoing the doubling: each pair of quotes read from the left is one quote.
RECURSIVE Undouble(_)
Undouble(text) ==
  IF Len(text) = 0 THEN ""
  ELSE IF Len(text) >= 2 /\ SubSeq(text, 1, 2) = "''"
    THEN "'" \o Undouble(SubSeq(text, 3, Len(text)))
  ELSE CharAt(text, 1) \o Undouble(SubSeq(text, 2, Len(text)))

Unquote(literal) == Undouble(SubSeq(literal, 2, Len(literal) - 1))

InitEscaper ==
  /\ probe \in { [step |-> "input", s |-> s, quoted |-> "", decoded |-> ""] :
                   s \in EscaperInputs }
  /\ env = Env(Undefined, Undefined, Undefined, Undefined, Undefined)
  /\ pc = "start"
  /\ Idle

Quote ==
  /\ probe.step = "input"
  /\ probe' = [probe EXCEPT !.quoted = toSqlString(probe.s), !.step = "quoted"]
  /\ UNCHANGED <<env, pc, locals, effects>>

Decode ==
  /\ probe.step = "quoted"
  /\ probe' = [probe EXCEPT !.decoded = Unquote(probe.quoted), !.step = "decoded"]
  /\ UNCHANGED <<env, pc, locals, effects>>

NextEscaper ==
  \/ Quote
  \/ Decode

SpecEscaper == InitEscaper /\ [][NextEscaper]_vars

\* s with each quote character written twice, one character at a time.
RECURSIVE Doubled(_)
Doubled(s) ==
  IF Len(s) = 0 THEN ""
  ELSE (IF CharAt(s, 1) = "'" THEN "''" ELSE CharAt(s, 1))
         \o Doubled(SubSeq(s, 2, Len(s)))

\* C9: quote(s) is s with each quote character doubled, between one leading
\* and one trailing quote; stripping the outer quotes and reading each
\* doubled quote as one quote gives s back.
C9_QuoteDoublesAndRoundTrips ==
  /\ probe.step # "input" =>
       /\ probe.quoted = "'" \o Doubled(probe.s) \o "'"
       /\ Len(probe.quoted)
            = Len(probe.s) + 2
                + Cardinality({ i \in 1..Len(probe.s) : CharAt(probe.s, i) = "'" })
  /\ probe.step = "decoded" => probe.decoded = probe.s

\* O'Brien has been quoted as 'O''Brien' and decoded back.
C9_Witness ==
  /\ probe.step = "decoded"
  /\ probe.s = "O'Brien"
  /\ probe.quoted = "'O''Brien'"
  /\ probe.decoded = "O'Brien"

(***************************************************************************)
(* CLASSIFY categories.                                                    *)
(***************************************************************************)
\* The value a category entry is compared by: the trimmed string, or the
\* trimmed label of an object.
CategoryKey(entry) ==
  IF IsString(entry) THEN Trim(entry.s) ELSE Trim(Get(entry, "label").s)

\* An entry normalization accepts wherever it stands in the list.
WellFormedCategory(entry) ==
  \/ IsString(entry) /\ Trim(entry.s) # ""
  \/ /\ isPlainObject(entry)
     /\ IsString(Get(entry, "label"))
     /\ Trim(Get(entry, "label").s) # ""
     /\ Get(entry, "description").t \in {"undefined", "string"}

\* The positions of the entries that are the first with their key.
FirstOccurrences(entries) ==
  { i \in 1..Len(entries) :
      \A j \in 1..(i - 1) : CategoryKey(entries[j]) # CategoryKey(entries[i]) }

\* The k-th smallest member of a set of positions.
Nth(positions, k) ==
  CHOOSE i \in positions : Cardinality({ j \in positions : j < i }) = k - 1

\* An args object of CLASSIFY with a valid input, no config, and a list of
\* well-formed categories under the key categories.
ClassifyCase ==
  /\ Dispatched
  /\ Family(functionName) = "CLASSIFY"
  /\ isPlainObject(argsRaw.doc)
  /\ KeySet(argsRaw.doc) = {"input", "categories"}
  /\ resolveClassifyInput(Get(argsRaw.doc, "input")).ok
  /\ IsArray(Get(argsRaw.doc, "categories"))
  /\ \A i \in 1..Len(Get(argsRaw.doc, "categories").items) :
       WellFormedCategory(Get(argsRaw.doc, "categories").items[i])

\* C10: the normalized categories are the first occurrences of each
\* trimmed value, in their original order, later duplicates dropped; and
\* normalization fails, with a bounds error, exactly when fewer than two
\* first occurrences remain.
C10_ClassifyDedupeBeforeMinimum ==
  ClassifyCase =>
    LET entries == Get(argsRaw.doc, "categories").items
        firsts == FirstOccurrences(entries)
        kept == Get(verboseArgs, "categories").items
    IN IF Cardinality(firsts) < 2
         THEN pc = "failed" /\ error.kind = "BoundsViolation" /\ sqlText = ""
         ELSE /\ sqlText # ""
              /\ Len(kept) = Cardinality(firsts)
              /\ \A k \in 1..Len(kept) :
                   /\ CategoryKey(kept[k]) = CategoryKey(entries[Nth(firsts, k)])
                   /\ IsString(kept[k]) = IsString(entries[Nth(firsts, k)])
                   /\ IsString(kept[k]) => kept[k].s = CategoryKey(kept[k])

\* ["billing","billing","support"] has been normalized to two categories.
C10_Witness ==
  /\ pc = "built"
  /\ Family(functionName) = "CLASSIFY"
  /\ Get(argsRaw.doc, "categories") = JArr(Strs(<< "billing", "billing", "support" >>))
  /\ Get(verboseArgs, "categories") = JArr(Strs(<< "billing", "support" >>))

(***************************************************************************)
(* SENTIMENT categories.                                                   *)
(***************************************************************************)
\* An args object of SENTIMENT with a valid text and an array under the key
\* categories, and no other key.
SentimentCase ==
  /\ Dispatched
  /\ Family(functionName) = "SENTIMENT"
  /\ isPlainObject(argsRaw.doc)
  /\ KeySet(argsRaw.doc) = {"text", "categories"}
  /\ requireNonEmptyString(Get(argsRaw.doc, "text"), "text").ok
  /\ IsArray(Get(argsRaw.doc, "categories"))

\* An entry the per-entry checks accept: a string that is not blank and has
\* at most 30 characters once trimmed.
ValidSentimentCategory(entry) ==
  IsString(entry) /\ Trim(entry.s) # "" /\ Len(Trim(entry.s)) <= 30

SentimentEntriesValid ==
  \A i \in 1..Len(Get(argsRaw.doc, "categories").items) :
    ValidSentimentCategory(Get(argsRaw.doc, "categories").items[i])

\* C11 (as stated): a list of valid entries is judged by its number of
\* distinct trimmed values: with 1 to 10 of them a query is built, and the
\* normalized list holds each distinct value once.
C11_SentimentDedupeBeforeBound ==
  (SentimentCase /\ SentimentEntriesValid
     /\ Len(Get(argsRaw.doc, "categories").items) > 0) =>
    LET entries == Get(argsRaw.doc, "categories").items
        distinct == { Trim(entries[i].s) : i \in 1..Len(entries) }
        kept == Get(verboseArgs, "categories").items
    IN IF Cardinality(distinct) <= 10
         THEN /\ sqlText # ""
              /\ Len(kept) = Cardinality(distinct)
              /\ \A i, j \in 1..Len(kept) : kept[i] = kept[j] => i = j
         ELSE pc = "failed" /\ error.kind = "BoundsViolation"

\* An args object of SENTIMENT with a valid text and no key but text and
\* categories.
SentimentTextCase ==
  /\ Dispatched
  /\ Family(functionName) = "SENTIMENT"
  /\ isPlainObject(argsRaw.doc)
  /\ KeySet(argsRaw.doc) \subseteq {"text", "categories"}
  /\ requireNonEmptyString(Get(argsRaw.doc, "text"), "text").ok

RejectedForBounds == pc = "failed" /\ error.kind = "BoundsViolation" /\ sqlText = ""

\* C12: without categories normalization succeeds and the payload has no
\* categories; an empty categories array and every array of more than 10
\* entries fail with a bounds error; an array of 1 to 10 valid entries is
\* accepted with as many normalized categories.
C12_SentimentCategoriesBound ==
  SentimentTextCase =>
    LET categories == Get(argsRaw.doc, "categories")
        kept == Get(verboseArgs, "categories")
    IN /\ ~Defined(categories) =>
            /\ ~Defined(kept)
            /\ sqlText
                 = CallOf(functionName, << toSqlString(Get(argsRaw.doc, "text").s) >>)
       /\ (IsArray(categories) /\ Len(categories.items) = 0) => RejectedForBounds
       /\ (IsArray(categories) /\ Len(categories.items) > 10) => RejectedForBounds
       /\ (IsArray(categories) /\ Len(categories.items) \in 1..10
             /\ SentimentEntriesValid) =>
            /\ sqlText # ""
            /\ Len(kept.items) = Len(categories.items)

\* A list of exactly 10 categories has been accepted, and kept whole.
C12_Witness ==
  /\ pc = "built"
  /\ Family(functionName) = "SENTIMENT"
  /\ Len(Get(argsRaw.doc, "categories").items) = 10
  /\ Len(Get(verboseArgs, "categories").items) = 10

\* C13 (as stated): a list of 1 to 10 entries with a string entry of 31 or
\* more characters is rejected.
C13_LongEntriesRejected ==
  (SentimentCase /\ Len(Get(argsRaw.doc, "categories").items) \in 1..10) =>
    LET entries == Get(argsRaw.doc, "categories").items
    IN (\E i \in 1..Len(entries) : IsString(entries[i]) /\ Len(entries[i].s) >= 31)
         => pc = "failed"

\* The kind of the error the per-entry checks raise for an entry.
SentimentEntryError(entry) ==
  IF ~IsString(entry) THEN "TypeMismatch"
  ELSE IF Trim(entry.s) = "" THEN "BlankField"
  ELSE "BoundsViolation"

\* C13 (amended): the length of an entry is measured after trimming.  A
\* list of 1 to 10 entries is rejected when it has an entry that is not a
\* string, is blank after trimming, or has 31 or more characters after
\* trimming, with the error of its first such entry (a bounds error for the
\* length); otherwise each normalized entry is the trimmed entry, a
\* non-blank string of at most 30 characters.
C13_SentimentEntryChecks ==
  (SentimentCase /\ Len(Get(argsRaw.doc, "categories").items) \in 1..10) =>
    LET entries == Get(argsRaw.doc, "categories").items
        bad == { i \in 1..Len(entries) : ~ValidSentimentCategory(entries[i]) }
        kept == Get(verboseArgs, "categories").items
    IN IF bad = {}
         THEN /\ sqlText # ""
              /\ Len(kept) = Len(entries)
              /\ \A i \in 1..Len(kept) :
                   /\ kept[i] = JStr(Trim(entries[i].s))
                   /\ Trim(kept[i].s) = kept[i].s
                   /\ Len(kept[i].s) \in 1..30
         ELSE /\ pc = "failed"
              /\ sqlText = ""
              /\ verboseArgs = EmptyObject
              /\ error.kind
                   = SentimentEntryError(entries[CHOOSE i \in bad : \A j \in bad : i <= j])

\* A 31-character entry has been rejected with the bounds error.
C13_Witness ==
  /\ pc = "failed"
  /\ Dispatched
  /\ Family(functionName) = "SENTIMENT"
  /\ Get(argsRaw.doc, "categories") = JArr(Strs(<< Str31 >>))
  /\ error = Throw("BoundsViolation", "AI_SENTIMENT categories[0] exceeds 30 characters.")

(***************************************************************************)
(* Input modes: EXTRACT text or file, EMBED input or input_file,           *)
(* SIMILARITY input1/input2 or input1_file/input2_file.                    *)
(***************************************************************************)
\* An args object of the function family with declared keys only.
DeclaredCase(family, declared) ==
  /\ Dispatched
  /\ Family(functionName) = family
  /\ isPlainObject(argsRaw.doc)
  /\ KeySet(argsRaw.doc) \subseteq declared

\* The run failed in normalization: no payload, no query text.
NoPayload == pc = "failed" /\ verboseArgs = EmptyObject /\ sqlText = "" /\ runSqlCalls = << >>

\* C14: text and file count as supplied when present and not null.  With
\* both supplied, or neither, EXTRACT normalization fails with the
\* mutual-exclusivity error; a payload is produced only with exactly one of
\* them, and holds that one, as supplied, and not the other.
C14_ExtractExactlyOneSource ==
  DeclaredCase("EXTRACT", {"text", "file", "response_format", "responseFormat"}) =>
    LET text == Get(argsRaw.doc, "text")
        file == Get(argsRaw.doc, "file")
        hasText == ~Nullish(text)
        hasFile == ~Nullish(file)
    IN /\ hasText = hasFile =>
            (NoPayload /\ error.kind = "MutuallyExclusiveViolation")
       /\ sqlText # "" =>
            /\ hasText # hasFile
            /\ Get(verboseArgs, "text") = (IF hasText THEN text ELSE Undefined)
            /\ Get(verboseArgs, "file") = (IF hasFile THEN file ELSE Undefined)

\* An args object with both a text and a file has been rejected.
C14_Witness ==
  /\ pc = "failed"
  /\ Dispatched
  /\ Family(functionName) = "EXTRACT"
  /\ IsString(Get(argsRaw.doc, "text"))
  /\ IsString(Get(argsRaw.doc, "file"))
  /\ error.kind = "MutuallyExclusiveViolation"

\* C15: a field of EMBED or SIMILARITY counts as supplied when its key is
\* present.  Text mode is input (EMBED) or input1 with input2 (SIMILARITY)
\* and no file field; file mode is input_file or input1_file with
\* input2_file and no text field.  Args in neither mode (a text field with
\* a file field, no field at all, one member of a pair) fail and produce no
\* payload; a payload produced in text mode holds the texts and no file,
\* one produced in file mode holds the files and empty texts.
C15_ExactlyOneInputMode ==
  /\ DeclaredCase("EMBED", {"model", "input", "input_file"}) =>
       LET input == Get(argsRaw.doc, "input")
           input_file == Get(argsRaw.doc, "input_file")
           textMode == Defined(input) /\ ~Defined(input_file)
           fileMode == Defined(input_file) /\ ~Defined(input)
       IN /\ ~(textMode \/ fileMode) => NoPayload
          /\ (Defined(input) /\ Defined(input_file)) =>
               error.kind = "MutuallyExclusiveViolation"
          /\ (sqlText # "" /\ textMode) =>
               (Get(verboseArgs, "input") = input /\ ~Has(verboseArgs, "inputFile"))
          /\ (sqlText # "" /\ fileMode) =>
               (Get(verboseArgs, "inputFile") = input_file
                  /\ Get(verboseArgs, "input") = JStr(""))
  /\ DeclaredCase("SIMILARITY", {"input1", "input2", "input1_file", "input2_file",
                                 "config_object", "config"}) =>
       LET input1 == Get(argsRaw.doc, "input1")
           input2 == Get(argsRaw.doc, "input2")
           input1_file == Get(argsRaw.doc, "input1_file")
           input2_file == Get(argsRaw.doc, "input2_file")
           anyText == Defined(input1) \/ Defined(input2)
           anyFile == Defined(input1_file) \/ Defined(input2_file)
           textMode == Defined(input1) /\ Defined(input2) /\ ~anyFile
           fileMode == Defined(input1_file) /\ Defined(input2_file) /\ ~anyText
       IN /\ ~(textMode \/ fileMode) => NoPayload
          /\ (anyText /\ anyFile) => error.kind = "MutuallyExclusiveViolation"
          /\ (sqlText # "" /\ textMode) =>
               /\ Get(verboseArgs, "input1") = input1
               /\ Get(verboseArgs, "input2") = input2
               /\ ~Has(verboseArgs, "input1File")
               /\ ~Has(verboseArgs, "input2File")
          /\ (sqlText # "" /\ fileMode) =>
               /\ Get(verboseArgs, "input1File") = input1_file
               /\ Get(verboseArgs, "input2File") = input2_file
               /\ Get(verboseArgs, "input1") = JStr("")
               /\ Get(verboseArgs, "input2") = JStr("")

\* SIMILARITY args with input1 only have been rejected: input2 is missing.
C15_Witness ==
  /\ Dispatched
  /\ NoPayload
  /\ Family(functionName) = "SIMILARITY"
  /\ KeySet(argsRaw.doc) = {"input1"}
  /\ error.msg = "Missing input2 - expected a string."

(***************************************************************************)
(* COUNT_TOKENS.                                                           *)
(***************************************************************************)
CountTokensDeclared ==
  {"function_name", "function", "input_text", "text", "model_name", "modelName",
   "categories"}

\* The function name an args object of COUNT_TOKENS supplies
SuppliedFunctionName ==
  Coalesce(Get(argsRaw.doc, "function_name"), Get(argsRaw.doc, "function"))

\* C16: a function_name that is a non-blank string is stored trimmed and
\* lower-cased; when that form does not start with ai_ normalization fails
\* with a bounds error; otherwise the name is not rejected, and every
\* payload and query built carries that form as the first argument of the call.
C16_CountTokensFunctionName ==
  (DeclaredCase("COUNT_TOKENS", CountTokensDeclared)
     /\ IsString(SuppliedFunctionName) /\ Trim(SuppliedFunctionName.s) # "") =>
    LET name == ToLowerCase(Trim(SuppliedFunctionName.s))
    IN IF SubSeq(name, 1, 3) # "ai_"
         THEN NoPayload /\ error.kind = "BoundsViolation"
         ELSE /\ error.msg # "AI_COUNT_TOKENS function_name must start with ai_."
              /\ sqlText # "" =>
                /\ Get(verboseArgs, "functionName") = JStr(name)
                /\ Get(request, "function_name") = JStr(name)
                /\ StartsWith(sqlText, "select " \o functionName \o "('" \o name \o "', ")

\* function_name AI_COMPLETE has been normalized to ai_complete.
C16_Witness ==
  /\ pc = "built"
  /\ Family(functionName) = "COUNT_TOKENS"
  /\ Get(argsRaw.doc, "function_name") = JStr("AI_COMPLETE")
  /\ Get(verboseArgs, "functionName") = JStr("ai_complete")
  /\ StartsWith(sqlText, "select AI_COUNT_TOKENS('ai_complete', ")

\* C17: with model_name (either spelling) and no categories the call is
\* (function_name, model_name, input_text); with categories and no
\* model_name it is (function_name, input_text, PARSE_JSON of the
\* categories); with neither it is (function_name, input_text); with both,
\* normalization fails and no query is built.
C17_CountTokensCallShape ==
  DeclaredCase("COUNT_TOKENS", CountTokensDeclared) =>
    LET model_name == Get(argsRaw.doc, "model_name")
        modelName == Get(argsRaw.doc, "modelName")
        categories == Get(argsRaw.doc, "categories")
        hasModelName == Defined(model_name) \/ Defined(modelName)
        hasCategories == Defined(categories)
        functionLiteral == "'" \o Doubled(ToLowerCase(Trim(SuppliedFunctionName.s))) \o "'"
        textLiteral ==
          "'" \o Doubled(Coalesce(Get(argsRaw.doc, "input_text"),
                                  Get(argsRaw.doc, "text")).s) \o "'"
        modelLiteral == "'" \o Doubled(Trim(Coalesce(model_name, modelName).s)) \o "'"
        call == IF hasModelName THEN << functionLiteral, modelLiteral, textLiteral >>
                ELSE IF hasCategories
                  THEN << functionLiteral, textLiteral,
                          "PARSE_JSON('" \o Doubled(JsonStringify(categories)) \o "')" >>
                ELSE << functionLiteral, textLiteral >>
    IN /\ (hasModelName /\ hasCategories) => NoPayload
       /\ sqlText # "" =>
            /\ sqlText = CallOf(functionName, call)
            /\ Len(call) = (IF hasModelName \/ hasCategories THEN 3 ELSE 2)
            /\ Has(verboseArgs, "modelName") = hasModelName
            /\ Has(verboseArgs, "categories") = hasCategories

\* A call with a model name has been built: three arguments, the model second.
C17_Witness ==
  /\ pc = "built"
  /\ Get(argsRaw.doc, "model_name") = JStr("llama3")
  /\ sqlText = "select AI_COUNT_TOKENS('ai_complete', 'llama3', 'hello') as response"

(***************************************************************************)
(* COMPLETE, and the keys no function declares.                            *)
(***************************************************************************)
\* C18: for COMPLETE args that hold a valid model and a valid prompt and
\* nothing else, the query is the call of the resolved name with the two
\* named arguments model => quoted trimmed model, prompt => quoted prompt,
\* in that order, and no other argument.
C18_CompleteMinimalCall ==
  (Dispatched /\ Family(functionName) = "COMPLETE" /\ isPlainObject(argsRaw.doc)
     /\ KeySet(argsRaw.doc) = {"model", "prompt"}
     /\ requireTrimmedString(Get(argsRaw.doc, "model"), "model").ok
     /\ requireNonEmptyString(Get(argsRaw.doc, "prompt"), "prompt").ok) =>
    /\ pc # "failed" \/ error.kind = "ExecutionError"
    /\ sqlText
         = "select " \o functionName \o "(model => '"
             \o Doubled(Trim(Get(argsRaw.doc, "model").s)) \o "', prompt => '"
             \o Doubled(Get(argsRaw.doc, "prompt").s) \o "') as response"
    /\ KeySet(request) = {"model", "prompt"}

\* The query of {"model":"snowflake-arctic","prompt":"Hi"} has been built.
C18_Witness ==
  /\ pc = "built"
  /\ argsRaw.s = "{\"model\":\"snowflake-arctic\",\"prompt\":\"Hi\"}"
  /\ sqlText = "select AI_COMPLETE(model => 'snowflake-arctic', prompt => 'Hi') as response"

\* The fields and aliases each function other than COMPLETE declares.
DeclaredKeys(family) ==
  CASE family = "EXTRACT" -> {"text", "file", "response_format", "responseFormat"}
    [] family = "SENTIMENT" -> {"text", "categories"}
    [] family = "CLASSIFY" ->
         {"input", "list_of_categories", "categories", "config_object", "config"}
    [] family = "COUNT_TOKENS" -> CountTokensDeclared
    [] family = "EMBED" -> {"model", "input", "input_file"}
    [] family = "SIMILARITY" ->
         {"input1", "input2", "input1_file", "input2_file", "config_object", "config"}
    [] family = "PARSE_DOCUMENT" -> {"file", "file_object", "options"}
    [] OTHER -> {}

\* C19: for every function other than COMPLETE, an args object with a key
\* the function does not declare is rejected with the additional-arguments
\* error, whatever its other keys hold: no payload, no request echo, no
\* query text.
C19_UnknownKeysRejected ==
  (Dispatched /\ Family(functionName) \in Families \ {"COMPLETE"}
     /\ isPlainObject(argsRaw.doc)
     /\ ~(KeySet(argsRaw.doc) \subseteq DeclaredKeys(Family(functionName)))) =>
    /\ NoPayload
    /\ request = EmptyObject
    /\ error.kind = "UnknownKey"

\* SENTIMENT args with the undeclared key aspect have been rejected.
C19_Witness ==
  /\ Dispatched
  /\ NoPayload
  /\ Has(argsRaw.doc, "aspect")
  /\ error.msg = "AI_SENTIMENT does not accept additional arguments: aspect"

\* The objects an args object of COMPLETE supplies for its parameters bag,
\* in merge order; its leftover keys are merged after them.
BagSources(doc) ==
  << Get(doc, "model_parameters"), Get(doc, "modelParameters"), Get(doc, "options") >>

LeftoverKeys(doc) == KeySet(doc) \ CompleteDeclared

\* The keys of the bag, and the value of a key: that of its last source.
BagKeys(doc) ==
  LeftoverKeys(doc)
    \cup UNION { IF isPlainObject(BagSources(doc)[i]) THEN KeySet(BagSources(doc)[i]) ELSE {} :
                   i \in 1..3 }

BagValue(doc, key) ==
  LET holders == { i \in 1..3 : isPlainObject(BagSources(doc)[i])
                                  /\ Has(BagSources(doc)[i], key) }
  IN IF key \in LeftoverKeys(doc) THEN Get(doc, key)
     ELSE Get(BagSources(doc)[CHOOSE i \in holders : \A j \in holders : j <= i], key)

\* COMPLETE args whose declared fields are all valid.
CompleteCase ==
  /\ Dispatched
  /\ Family(functionName) = "COMPLETE"
  /\ isPlainObject(argsRaw.doc)
  /\ requireTrimmedString(Get(argsRaw.doc, "model"), "model").ok
  /\ requireNonEmptyString(Get(argsRaw.doc, "prompt"), "prompt").ok
  /\ \A key \in {"model_parameters", "modelParameters", "options"} :
       Get(argsRaw.doc, key).t \in {"undefined", "object"}
  /\ resolveResponseFormat(Get(argsRaw.doc, "response_format"),
                           Get(argsRaw.doc, "responseFormat")).ok
  /\ resolveShowDetails(Get(argsRaw.doc, "show_details"),
                        Get(argsRaw.doc, "showDetails")).ok

\* C20: COMPLETE never fails for an undeclared key.  With its declared
\* fields valid, the payload's parameters are the keys of model_parameters,
\* modelParameters, options and the leftover keys, each with the value of
\* the last of these sources that has it; with no such key the payload has
\* no parameters and the call no model_parameters argument.
C20_CompleteFoldsLeftoverKeys ==
  /\ (Dispatched /\ Family(functionName) = "COMPLETE") => error.kind # "UnknownKey"
  /\ CompleteCase =>
       LET kept == Get(verboseArgs, "modelParameters")
           keys == BagKeys(argsRaw.doc)
       IN /\ sqlText # ""
          /\ IF keys = {}
               THEN /\ ~Defined(kept)
                    /\ ~Has(request, "model_parameters")
               ELSE /\ isPlainObject(kept)
                    /\ KeySet(kept) = keys
                    /\ \A key \in keys : Get(kept, key) = BagValue(argsRaw.doc, key)
                    /\ Get(request, "model_parameters") = kept
          /\ \E rf \in Opt("response_format => PARSE_JSON(?)"),
                sd \in Opt("show_details => TRUE") \cup Opt("show_details => FALSE") :
               Skeleton(sqlText)
                 = CallOf(functionName,
                          << "model => ?", "prompt => ?" >>
                            \o (IF keys = {} THEN << >>
                                ELSE << "model_parameters => PARSE_JSON(?)" >>)
                            \o rf \o sd)

\* An options object and a leftover key that collide have been merged: the
\* leftover key's value is kept.
C20_Witness ==
  /\ pc = "built"
  /\ Get(argsRaw.doc, "options") = JObj(Member("temperature", JNum(9)))
  /\ Get(argsRaw.doc, "temperature") = JNum(7)
  /\ Get(verboseArgs, "modelParameters") = JObj(Member("temperature", JNum(7)))

(***************************************************************************)
(* The payload, the call and the request echo, field by field.             *)
(***************************************************************************)
\* The payload has a value for the field.
Present(payload, key) == Defined(Get(payload, key))

\* The argument an optional field contributes: one when present, none otherwise.
OptionalArg(payload, key, arg) == IF Present(payload, key) THEN << arg >> ELSE << >>

\* The arguments of the call of a payload, a quoted literal written "?" and
\* a file reference "@": the required fields, and one argument for each
\* optional field the payload has.
ExpectedArgs(family, payload) ==
  CASE family = "COMPLETE" ->
         << "model => ?", "prompt => ?" >>
           \o OptionalArg(payload, "modelParameters", "model_parameters => PARSE_JSON(?)")
           \o OptionalArg(payload, "responseFormat", "response_format => PARSE_JSON(?)")
           \o OptionalArg(payload, "showDetails",
                          IF Get(payload, "showDetails").b THEN "show_details => TRUE"
                          ELSE "show_details => FALSE")
    [] family = "EXTRACT" ->
         OptionalArg(payload, "text", "text => ?") \o OptionalArg(payload, "file", "file => @")
           \o << "responseFormat => PARSE_JSON(?)" >>
    [] family = "SENTIMENT" -> << "?" >> \o OptionalArg(payload, "categories", "PARSE_JSON(?)")
    [] family = "CLASSIFY" ->
         << IF IsString(Get(payload, "input")) THEN "input => ?" ELSE "input => PARSE_JSON(?)",
            "list_of_categories => PARSE_JSON(?)" >>
           \o OptionalArg(payload, "config", "config_object => PARSE_JSON(?)")
    [] family = "COUNT_TOKENS" ->
         << "?" >> \o OptionalArg(payload, "modelName", "?") \o << "?" >>
           \o OptionalArg(payload, "categories", "PARSE_JSON(?)")
    [] family = "EMBED" ->
         << "?", IF Present(payload, "inputFile") THEN "@" ELSE "?" >>
    [] family = "SIMILARITY" ->
         << IF Present(payload, "input1File") THEN "@" ELSE "?",
            IF Present(payload, "input2File") THEN "@" ELSE "?" >>
           \o OptionalArg(payload, "config", "PARSE_JSON(?)")
    [] family = "PARSE_DOCUMENT" ->
         << "file => @" >> \o OptionalArg(payload, "options", "options => PARSE_JSON(?)")
    [] OTHER -> << >>

\* C21: the call of every query built has the arguments of the required
\* fields and exactly one argument for each optional field the payload has;
\* a field the payload lacks contributes nothing, neither an empty literal
\* nor NULL nor an empty PARSE_JSON.
C21_AbsentOptionalsOmitted ==
  Built =>
    SkeletonWithRefs(sqlText, FileRefs(verboseArgs))
      = CallOf(functionName, ExpectedArgs(Family(functionName), verboseArgs))

\* A COMPLETE call with show_details false has been built.
C21_Witness ==
  /\ pc = "built"
  /\ Get(verboseArgs, "showDetails") = JBool(FALSE)
  /\ sqlText
       = "select AI_COMPLETE(model => 'snowflake-arctic', prompt => 'Hi', show_details => FALSE) as response"

\* C22 (as stated): no field of a validated payload carries a placeholder:
\* a member of the payload that has a value has one other than null and
\* the empty string.
C22_NoPlaceholderFields ==
  Built =>
    \A key \in KeySet(verboseArgs) :
      Present(verboseArgs, key) => Get(verboseArgs, key) \notin { JNull, JStr("") }

\* The name a payload field has in the request echo.
EchoName(key) ==
  CASE key = "modelParameters" -> "model_parameters"
    [] key = "responseFormat" -> "response_format"
    [] key = "showDetails" -> "show_details"
    [] key = "config" -> "config_object"
    [] key = "functionName" -> "function_name"
    [] key = "inputText" -> "input_text"
    [] key = "modelName" -> "model_name"
    [] key = "inputFile" -> "input_file"
    [] key = "input1File" -> "input1_file"
    [] key = "input2File" -> "input2_file"
    [] OTHER -> key

PresentKeys(payload) == { key \in KeySet(payload) : Present(payload, key) }

\* C23 (as stated): for every accepted args object the request echo holds exactly
\* the fields present in the validated payload, under their snake-style names and
\* with the payload's values: no field the payload lacks, none it has omitted.
C23_EchoMirrorsPayload ==
  Built =>
    /\ KeySet(request) = { EchoName(key) : key \in PresentKeys(verboseArgs) }
    /\ \A key \in PresentKeys(verboseArgs) :
         Get(request, EchoName(key)) = Get(verboseArgs, key)

(***************************************************************************)
(* The execution, the log and the outputs of a run.                        *)
(***************************************************************************)
\* The run failed in runSql: the query was handed over and main caught what it threw.
ExecutionFailed == pc = "failed" /\ runSqlCalls # << >>

\* C24 (as stated): runSql is invoked at most once; when it fails the run ends failed,
\* reporting the message of what was thrown, with no output set.
C24_FailureReportsThrownMessage ==
  /\ Len(runSqlCalls) <= 1
  /\ ExecutionFailed => failures = << error.msg >> /\ outputs = << >>

\* C24 (amended): runSql is invoked at most once, with the built query; when it throws,
\* the run ends failed with no output set and one setFailed call, whose message is the
\* thrown Error's own message, or the fixed text when what was thrown is not an Error.
C24_OneCallNoRetry ==
  /\ Len(runSqlCalls) <= 1
  /\ pc \in {"awaiting", "returned", "done"} => runSqlCalls = << sqlText >>
  /\ ExecutionFailed =>
       /\ runSqlCalls = << sqlText >>
       /\ outputs = << >>
       /\ failures = << IF error.value = "not an Error"
                          THEN "Unknown error when running AI SQL" ELSE error.msg >>

C24_Witness ==
  /\ ExecutionFailed
  /\ error.value = "not an Error"
  /\ failures = << "Unknown error when running AI SQL" >>

\* The level asks for verbose logging: it is set and reads VERBOSE in any letter case.
LevelIsVerbose ==
  /\ Defined(env.SNOWFLAKE_LOG_LEVEL)
  /\ ToUpperCase(env.SNOWFLAKE_LOG_LEVEL.s) = "VERBOSE"

VerboseLines ==
  << "[VERBOSE] SQL: " \o sqlText, "[VERBOSE] Args: " \o JsonStringify(verboseArgs) >>

\* The log step of main is behind the run.
Logged == pc \in {"logged", "awaiting", "returned", "done"} \/ ExecutionFailed

Lines(log) == { log[i] : i \in 1..Len(log) }

Shows(log, text) ==
  \E i \in 1..Len(log) : HasMatch(log[i], 1, Len(log[i]) - Len(text) + 1, text)

\* C25: nothing is logged before the query is built; the log is written before runSql is
\* called.  With a level that reads VERBOSE in any letter case the log starts with the
\* query text and the payload and holds no summary line; with any other level, or none,
\* it starts with the summary lines, the first being the function line, and shows neither
\* the query text nor the payload.  A run that fails validation logs only the failure.
C25_LogFollowsLevel ==
  /\ pc \in {"start", "resolved", "picked", "built"} => console = << >>
  /\ runSqlCalls # << >> => Logged
  /\ pc = "logged" => runSqlCalls = << >>
  /\ (Logged /\ LevelIsVerbose) =>
       /\ SubSeq(console, 1, 2) = VerboseLines
       /\ Lines(summaryLines) \cap Lines(console) = { }
  /\ (Logged /\ ~LevelIsVerbose) =>
       /\ SubSeq(console, 1, Len(summaryLines)) = summaryLines
       /\ summaryLines[1] = "Function: " \o functionName
       /\ ~Shows(console, sqlText)
       /\ ~Shows(console, JsonStringify(verboseArgs))
  /\ (pc = "failed" /\ runSqlCalls = << >>) =>
       console = << "Cortex AI SQL call failed:", error.msg >>

C25_Witness ==
  /\ pc = "logged"
  /\ env.SNOWFLAKE_LOG_LEVEL = JStr("verbose")
  /\ console = << "[VERBOSE] SQL: select AI_SENTIMENT('good food') as response",
                  "[VERBOSE] Args: {\"text\":\"good food\"}" >>

\* The first column of the first returned record, Undefined when there is none.
FirstColumn ==
  IF result.rows = << >> THEN Undefined
  ELSE IF result.rows[1].members = << >> THEN Undefined
  ELSE result.rows[1].members[1][2]

\* The text of result-json, field by field.
ResultJson ==
  "{\"function\":\"" \o functionName \o "\",\"request\":" \o JsonStringify(request)
    \o ",\"result\":{\"queryId\":" \o JsonStringify(result.queryId)
    \o ",\"rowCount\":" \o JsonStringify(result.rowCount)
    \o ",\"rows\":" \o JsonStringify(JArr(result.rows))
    \o (IF Defined(FirstColumn) THEN ",\"value\":" \o JsonStringify(FirstColumn) ELSE "")
    \o "}}"

\* C26: after runSql returned, result-text is the first column of the first record when
\* that is a string, its JSON text when it is any other value, and the empty string when
\* there is no record or the first record has no column; result-json holds the function
\* name, the request echo and queryId, rowCount and all records as runSql returned them.
C26_OutputsCarryResult ==
  /\ outputs # << >> => pc = "done"
  /\ pc = "done" =>
       /\ Len(outputs) = 2
       /\ outputs[1] = << "result-json", ResultJson >>
       /\ outputs[2] = << "result-text",
                          CASE ~Defined(FirstColumn) -> ""
                            [] FirstColumn.t = "string" -> FirstColumn.s
                            [] OTHER -> JsonStringify(FirstColumn) >>

C26_Witness ==
  /\ pc = "done"
  /\ result.queryId = JStr("01b2-q5")
  /\ outputs[2] = << "result-text", "null" >>

\* The args text the caller supplied: the args input unless it is blank, AI_ARGS otherwise.
SuppliedArgs ==
  IF Defined(env.INPUT_ARGS) /\ Trim(env.INPUT_ARGS.s) # "" THEN env.INPUT_ARGS
  ELSE env.AI_ARGS

BlankArgs == ~Defined(SuppliedArgs) \/ Trim(SuppliedArgs.s) = ""

\* The function resolved and main went on to read the args; the switch has run as well.
ArgsRead == pc \notin {"start", "resolved"} /\ functionName # ""
ArgsParsed == ArgsRead /\ pc # "picked"

ShapeErrors == { "MissingInput", "InvalidJson", "WrongShape" }

\* C27: for every supported function, blank args fail with the missing-input error, args
\* that are not well-formed JSON with the invalid-JSON error, and args that parse to an
\* array, string, number, boolean or null with the wrong-shape error, in each case with
\* no payload and no query; args that parse to an object fail with none of the three.
C27_ArgsTextRejected ==
  /\ (ArgsRead /\ BlankArgs) =>
       /\ NoPayload
       /\ error = Throw("MissingInput", "Missing args input - provide 'args' or set AI_ARGS.")
  /\ (ArgsParsed /\ ~BlankArgs) =>
       IF ~Defined(SuppliedArgs.doc)
         THEN /\ NoPayload
              /\ error.kind = "InvalidJson"
              /\ StartsWith(error.msg, "Invalid args JSON: ")
       ELSE IF SuppliedArgs.doc.t # "object"
         THEN /\ NoPayload
              /\ error = Throw("WrongShape", "args must be a JSON object.")
       ELSE error.kind \notin ShapeErrors

C27_Witness ==
  /\ pc = "failed"
  /\ functionName = "SNOWFLAKE.CORTEX.PARSE_DOCUMENT"
  /\ SuppliedArgs.s = "[1]"
  /\ error.kind = "WrongShape"

(***************************************************************************)
(* The order of the checks.                                                *)
(***************************************************************************)
\* The fields a function requires, each with its accepted spellings.
RequiredGroups(family) ==
  CASE family = "COMPLETE" -> { {"model"}, {"prompt"} }
    [] family = "EXTRACT" -> { {"response_format", "responseFormat"} }
    [] family = "SENTIMENT" -> { {"text"} }
    [] family = "CLASSIFY" -> { {"input"}, {"categories", "list_of_categories"} }
    [] family = "COUNT_TOKENS" -> { {"function_name", "function"}, {"input_text", "text"} }
    [] family = "EMBED" -> { {"model"} }
    [] family = "PARSE_DOCUMENT" -> { {"file", "file_object"} }
    [] OTHER -> { }

MissingRequired(family, doc) ==
  \E group \in RequiredGroups(family) : \A key \in group : ~Defined(Get(doc, key))

\* The steps of normalization that come after the required-field checks.
LaterSteps == { "MutuallyExclusiveViolation", "BoundsViolation", "UnknownKey" }

\* C28 (as stated): a name that does not resolve is reported before anything about the
\* args, and args that break several rules are reported for the earliest step: a run
\* that fails on mutual exclusivity, on a bound or on a leftover key has args that hold
\* every required field of the function.
C28_EarliestStepReported ==
  /\ (Resolved /\ functionName = "") =>
       error.kind \in { "MissingFunctionName", "UnsupportedFunction" }
  /\ (Dispatched /\ pc = "failed" /\ error.kind \in LaterSteps) =>
       ~MissingRequired(Family(functionName), argsRaw.doc)

(***************************************************************************)
(* The calling convention, read back from the query text.                  *)
(***************************************************************************)
Contains(text, part) == HasMatch(text, 1, Len(text) - Len(part) + 1, part)

RECURSIVE SplitOn(_, _)
SplitOn(text, sep) ==
  IF ~Contains(text, sep) THEN << text >>
  ELSE LET i == FirstMatch(text, 1, Len(text) - Len(sep) + 1, sep)
       IN << SubSeq(text, 1, i - 1) >> \o SplitOn(SubSeq(text, i + Len(sep), Len(text)), sep)

\* The arguments of a call, literals and file references already replaced.
ArgsOf(skeleton, name) ==
  SplitOn(SubSeq(skeleton, Len("select " \o name \o "(") + 1,
                 Len(skeleton) - Len(") as response")), ", ")

\* What stands at an argument's place: a literal, a file reference, a parsed literal.
PositionalValues == { "?", "@", "PARSE_JSON(?)" }
NamedValues == PositionalValues \cup { "TRUE", "FALSE" }

KeyOf(arg) == SubSeq(arg, 1, FirstMatch(arg, 1, Len(arg) - 3, " => ") - 1)
ValueOf(arg) == SubSeq(arg, FirstMatch(arg, 1, Len(arg) - 3, " => ") + 4, Len(arg))

PositionalFamilies == { "EMBED", "SIMILARITY", "COUNT_TOKENS", "SENTIMENT" }

\* The keys of the named calls, in the order the builders emit them.
NamedKeys(family) ==
  CASE family = "COMPLETE" ->
         << "model", "prompt", "model_parameters", "response_format", "show_details" >>
    [] family = "EXTRACT" -> << "text", "file", "responseFormat" >>
    [] family = "CLASSIFY" -> << "input", "list_of_categories", "config_object" >>
    [] family = "PARSE_DOCUMENT" -> << "file", "options" >>
    [] OTHER -> << >>

\* The same with the canonical field names of the rule table.
CanonicalKeys(family) ==
  CASE family = "EXTRACT" -> << "text", "file", "response_format" >>
    [] family = "CLASSIFY" -> << "input", "categories", "config_object" >>
    [] OTHER -> NamedKeys(family)

Position(keys, key) == CHOOSE i \in 1..Len(keys) : keys[i] = key

\* Every argument is a bare value.
AllPositional(args) == \A i \in 1..Len(args) : args[i] \in PositionalValues

\* Every argument is key => value with a key of keys, the keys in the order of keys.
AllNamed(args, keys) ==
  /\ \A i \in 1..Len(args) :
       /\ Contains(args[i], " => ")
       /\ KeyOf(args[i]) \in Lines(keys)
       /\ ValueOf(args[i]) \in NamedValues
  /\ \A i \in 1..Len(args), j \in 1..Len(args) :
       i < j => Position(keys, KeyOf(args[i])) < Position(keys, KeyOf(args[j]))

CallConvention(KeysOfFamily(_)) ==
  Built =>
    LET family == Family(functionName)
        args == ArgsOf(SkeletonWithRefs(sqlText, FileRefs(verboseArgs)), functionName)
    IN IF family \in PositionalFamilies THEN AllPositional(args)
       ELSE AllNamed(args, KeysOfFamily(family))

\* C29 (as stated): EMBED, SIMILARITY, COUNT_TOKENS and SENTIMENT calls have positional
\* arguments only; COMPLETE, EXTRACT, CLASSIFY and PARSE_DOCUMENT calls have key => value
\* arguments only, the key being the canonical field name of the rule table.
C29_NamedKeysCanonical == CallConvention(CanonicalKeys)

\* C29 (amended): as above, the key being the argument name of the SQL function, which
\* is the canonical field name except for responseFormat in EXTRACT calls and
\* list_of_categories in CLASSIFY calls; SIMILARITY args with the texts a and b give
\* the two arguments 'a', 'b'.
C29_OneConventionPerFunction ==
  /\ CallConvention(NamedKeys)
  /\ (Built /\ Family(functionName) = "SIMILARITY"
        /\ argsRaw.doc = JObj(Member("input1", JStr("a")) \o Member("input2", JStr("b")))) =>
       sqlText = "select " \o functionName \o "('a', 'b') as response"

C29_Witness ==
  /\ pc = "built"
  /\ functionName = "AI_SIMILARITY"
  /\ Present(verboseArgs, "config")
  /\ ArgsOf(Skeleton(sqlText), functionName) = << "?", "?", "PARSE_JSON(?)" >>

(***************************************************************************)
(* The end of a run.                                                       *)
(***************************************************************************)
Terminal == pc \in {"done", "failed"}

OutputNames == { outputs[i][1] : i \in 1..Len(outputs) }

Succeeded ==
  /\ pc = "done"
  /\ Len(outputs) = 2
  /\ OutputNames = { "result-json", "result-text" }
  /\ failures = << >>

Failed == pc = "failed" /\ Len(failures) = 1 /\ outputs = << >>

\* A run that has ended has both outputs and no setFailed call, or one setFailed call
\* and no output; a run that has not ended has neither.
OneOutcome ==
  /\ Terminal => (Succeeded \/ Failed)
  /\ ~Terminal => (outputs = << >> /\ failures = << >>)

\* C30: every run of main ends, runSql returning or throwing, and ends in exactly one of
\* two ways: both result-json and result-text set and setFailed not called, or setFailed
\* called once and no output set; nothing happens after the end.
C30_RunEndsInOneOutcome ==
  /\ []OneOutcome
  /\ [][~Terminal]_vars
  /\ <>Terminal

C30_Witness ==
  /\ Succeeded
  /\ result.rows = << >>
  /\ outputs[2] = << "result-text", "" >>

====
